---------------------------- MODULE Spec2Model ----------------------------
(***************************************************************************)
(* Multi-critic consensus aggregation of the "clinical" critique rubric    *)
(* (critique/analyzers.py, CritiqueAnalyzer) and of the Orwell-Hitchens    *)
(* writing rubric (orwell_hitchens/analyzers.py, WritingAnalyzer).         *)
(*                                                                         *)
(* A critic's raw text is represented by what the analyzers observe of it: *)
(* whether it is empty, whether its lowercase form contains "failed",      *)
(* whether it contains '{', and what json.loads yields for the whole text  *)
(* and for the substring from the first '{' to the last '}'.               *)
(***************************************************************************)
EXTENDS Integers, Sequences, FiniteSets

VARIABLES analyzer, critiques, pc, result,
          call, critique_text, names, raised, task, record

\* what a direct call of calculate_consensus leaves alone: the function and
\* key of a call of a text function and its text, the critic names and failed
\* API calls of the engine's mapping, the task's retry state, the stored record
context == <<call, critique_text, names, raised, task, record>>

vars == <<analyzer, critiques, pc, result, context>>

---------------------------------------------------------------------------
(* JSON values as json.loads produces them, tagged by Python type.         *)
(* A float is held in tenths (7.5 is JFloat(75)).                          *)

JNull == [t |-> "null", v |-> 0]
JInt(n) == [t |-> "int", v |-> n]
JFloat(tenths) == [t |-> "float", v |-> tenths]
JBool(b) == [t |-> "bool", v |-> b]
JStr(s) == [t |-> "str", v |-> s]
JList(xs) == [t |-> "list", v |-> xs]
JDict(d) == [t |-> "dict", v |-> d]
\* json.loads raised (the text is not JSON)
JFail == [t |-> "fail", v |-> 0]

EmptyDict == [k \in {} |-> JNull]

\* Optional values: Python's None against a value.
None == [some |-> FALSE, v |-> 0]
Some(x) == [some |-> TRUE, v |-> x]

\* Python truthiness of a JSON value (the operand of `or` and of `if`).
Truthy(j) ==
  CASE j.t = "null" -> FALSE
    [] j.t = "int" -> j.v # 0
    [] j.t = "float" -> j.v # 0
    [] j.t = "bool" -> j.v
    [] j.t = "str" -> j.v # ""
    [] j.t = "list" -> Len(j.v) > 0
    [] j.t = "dict" -> DOMAIN j.v # {}
    [] OTHER -> FALSE

\* str.upper() on the strings the model's critics use.
Upper(s) ==
  CASE s = "clear" -> "CLEAR"
    [] s = "Clear" -> "CLEAR"
    [] s = "revise" -> "REVISE"
    [] s = "reject" -> "REJECT"
    [] s = "publish" -> "PUBLISH"
    [] s = "Publish" -> "PUBLISH"
    [] s = "rewrite" -> "REWRITE"
    [] s = "maybe" -> "MAYBE"
    [] OTHER -> s

\* int(s) for a string: the number it spells, or None where int() raises
\* ValueError.
IntOfStr(s) ==
  CASE s = "0" -> Some(0)
    [] s = "3" -> Some(3)
    [] s = "75" -> Some(75)
    [] s = " 60 " -> Some(60)
    [] s = "150" -> Some(150)
    [] s = "-5" -> Some(0 - 5)
    [] OTHER -> None

\* Truncation toward zero of a float held in tenths.
Trunc(tenths) ==
  IF tenths >= 0 THEN tenths \div 10 ELSE 0 - ((0 - tenths) \div 10)

\* int(v) inside try/except: Some(n), or None where int() raises
\* (TypeError for None, a list or a mapping; ValueError for a string that
\* spells no integer).
IntOf(j) ==
  CASE j.t = "int" -> Some(j.v)
    [] j.t = "bool" -> Some(IF j.v THEN 1 ELSE 0)
    [] j.t = "float" -> Some(Trunc(j.v))
    [] j.t = "str" -> IntOfStr(j.v)
    [] OTHER -> None

---------------------------------------------------------------------------
(* Critic texts.                                                           *)

Text(empty, failed, brace, whole, inner) ==
  [empty |-> empty, failed |-> failed, brace |-> brace,
   whole |-> whole, inner |-> inner]

EmptyText == Text(TRUE, FALSE, FALSE, JFail, JFail)
\* prose without any brace, e.g. "Some error or non-json output"
ProseText == Text(FALSE, FALSE, FALSE, JFail, JFail)
\* the sentinel of a critic whose call failed, e.g. "failed to respond"
FailedText == Text(FALSE, TRUE, FALSE, JFail, JFail)
\* a text that is exactly one JSON object
JsonText(d) == Text(FALSE, FALSE, TRUE, JDict(d), JDict(d))
\* a JSON object surrounded by prose
WrappedText(d) == Text(FALSE, FALSE, TRUE, JFail, JDict(d))
\* a JSON object surrounded by prose that mentions "failed"
FailedJsonText(d) == Text(FALSE, TRUE, TRUE, JFail, JDict(d))
\* braces that hold no JSON, e.g. "see {above}"
BrokenText == Text(FALSE, FALSE, TRUE, JFail, JFail)

\* _parse_json_block with the fallback to the embedded object left out
parse_json_block_whole_only(text) ==
  IF text.empty \/ ~text.brace THEN None
  ELSE IF text.whole.t = "dict" THEN Some(text.whole.v)
  ELSE None

\* _parse_json_block: Some(mapping) or None.
parse_json_block(text) ==
  IF text.empty \/ ~text.brace THEN None
  ELSE IF text.whole.t = "dict" THEN Some(text.whole.v)
  ELSE IF text.inner.t = "dict" THEN Some(text.inner.v)
  ELSE None

\* `_parse_json_block(text) or {}`: None and the empty mapping both give {}.
ParsedOrEmpty(text) ==
  LET p == parse_json_block(text)
  IN IF p.some /\ DOMAIN p.v # {} THEN p.v ELSE EmptyDict

\* dict.get(k) with default None.
Get(parsed, k) == IF k \in DOMAIN parsed THEN parsed[k] ELSE JNull

\* dict.get(k, '') with default ''.
GetStr(parsed, k) == IF k \in DOMAIN parsed THEN parsed[k] ELSE JStr("")

\* parse_structured.as_int: int(v) when v is not None, None on any exception.
\* No range test is applied.
as_int(parsed, k) ==
  LET v == Get(parsed, k)
  IN IF v.t = "null" THEN None ELSE IntOf(v)

\* parse_structured.as_list
as_list(parsed, k) ==
  LET v == Get(parsed, k)
  IN IF v.t = "list" THEN v.v ELSE <<>>

\* parse_structured.as_dict
as_dict(parsed, k) ==
  LET v == Get(parsed, k)
  IN IF v.t = "dict" THEN v.v ELSE EmptyDict

\* `(parsed.get(k) or '').upper()` raises AttributeError when the value is
\* truthy and not a string.
VerdictRaises(parsed, k) ==
  LET v == Get(parsed, k)
  IN Truthy(v) /\ v.t # "str"

VerdictUpper(parsed, k) ==
  LET v == Get(parsed, k)
  IN IF Truthy(v) /\ v.t = "str" THEN Upper(v.v) ELSE ""

\* Excluded with the "failed" test left out
Excluded_empty_only(text) == text.empty

\* the loop's test `not critique_text or 'failed' in critique_text.lower()`
Excluded(text) == text.empty \/ text.failed

---------------------------------------------------------------------------
(* Helpers over sequences.                                                 *)

Map(f(_), s) == [i \in 1..Len(s) |-> f(s[i])]

RECURSIVE SumSeq(_)
SumSeq(s) == IF s = <<>> THEN 0 ELSE Head(s) + SumSeq(Tail(s))

RECURSIVE Concat(_)
\* the concatenation of a sequence of sequences (repeated list.extend)
Concat(ss) == IF ss = <<>> THEN <<>> ELSE Head(ss) \o Concat(Tail(ss))

Count(s, x) == Cardinality({i \in 1..Len(s) : s[i] = x})

Range(s) == {s[i] : i \in 1..Len(s)}

RECURSIVE SortedSeq(_)
\* sorted(list(S)) for a set of integers
SortedSeq(S) ==
  IF S = {} THEN <<>>
  ELSE LET m == CHOOSE x \in S : \A y \in S : x <= y
       IN <<m>> \o SortedSeq(S \ {m})

\* Python == between two JSON values: numbers compare by value across int,
\* float and bool; everything else by type and content.
IsNum(j) == j.t \in {"int", "float", "bool"}
NumTenths(j) ==
  CASE j.t = "int" -> 10 * j.v
    [] j.t = "float" -> j.v
    [] j.t = "bool" -> (IF j.v THEN 10 ELSE 0)
    [] OTHER -> 0
PyEq(a, b) ==
  IF IsNum(a) /\ IsNum(b) THEN NumTenths(a) = NumTenths(b)
  ELSE a.t = b.t /\ a = b

\* hash() raises TypeError for a list or a mapping.
Unhashable(j) == j.t \in {"list", "dict"}

\* Dedup left out: the extended list as it is
Dedup_left_out(xs) == xs

RECURSIVE Dedup(_)
\* list(dict.fromkeys(xs)): first occurrences, in order
Dedup(xs) ==
  IF xs = <<>> THEN <<>>
  ELSE LET front == Dedup(SubSeq(xs, 1, Len(xs) - 1))
           x == xs[Len(xs)]
       IN IF \E i \in 1..Len(front) : PyEq(front[i], x)
          THEN front ELSE Append(front, x)

\* Decimal(total / n).quantize(Decimal('0.1')) in tenths.  The default
\* decimal context rounds ROUND_HALF_EVEN.  A tie at one decimal place needs
\* the mean to be an odd multiple of 1/20; for n < 20 such a mean is an odd
\* multiple of 1/4, which the float division holds exactly, so the exact
\* rational decides the rounding.
QuantizeMean(total, n) ==
  LET num == 10 * total
      q == num \div n
      r == num % n
  IN IF 2 * r < n THEN q
     ELSE IF 2 * r > n THEN q + 1
     ELSE IF q % 2 = 0 THEN q ELSE q + 1

\* Average testing the sum instead of the list (`if sum(scores):`)
Average_falsy_sum(scores) ==
  IF SumSeq(scores) = 0 THEN None
  ELSE Some(QuantizeMean(SumSeq(scores), Len(scores)))

\* Average giving 0.0 for an empty list, where None is meant
Average_zero_when_empty(scores) ==
  IF Len(scores) = 0 THEN Some(0)
  ELSE Some(QuantizeMean(SumSeq(scores), Len(scores)))

\* the average of a score list: None when the list is empty
Average(scores) ==
  IF Len(scores) = 0 THEN None
  ELSE Some(QuantizeMean(SumSeq(scores), Len(scores)))

\* Supplied stopping at the first record that lacks field f (`break` where
\* the loop should pass on to the next critic)
Supplied_until_missing(parsed_list, f) ==
  LET gaps == {i \in 1..Len(parsed_list) : ~parsed_list[i][f].some}
      stop == IF gaps = {} THEN Len(parsed_list) + 1
              ELSE CHOOSE i \in gaps : \A j \in gaps : i <= j
  IN [i \in 1..(stop - 1) |-> parsed_list[i][f].v]

\* the values of the records that supplied field f (is not None)
Supplied(parsed_list, f) ==
  LET has(p) == p[f].some
      val(p) == p[f].v
  IN Map(val, SelectSeq(parsed_list, has))

\* `p.get(f) or 0`
OrZero(opt) == IF opt.some THEN opt.v ELSE 0

\* merged.setdefault(k, []).extend(v if isinstance(v, list) else [v]) over
\* the records, before deduplication
MergedLists(parsed_list, f, k) ==
  LET part(p) ==
        IF k \in DOMAIN p[f]
        THEN (IF p[f][k].t = "list" THEN p[f][k].v ELSE <<p[f][k]>>)
        ELSE <<>>
  IN Concat(Map(part, parsed_list))

MergedKeys(parsed_list, f) ==
  UNION {DOMAIN parsed_list[i][f] : i \in 1..Len(parsed_list)}

\* the merged mapping after `list(dict.fromkeys(...))` per key
MergeDict(parsed_list, f) ==
  [k \in MergedKeys(parsed_list, f) |-> Dedup(MergedLists(parsed_list, f, k))]

\* dict.fromkeys raises TypeError on an unhashable entry
MergeDictRaises(parsed_list, f) ==
  \E k \in MergedKeys(parsed_list, f) :
    \E i \in 1..Len(MergedLists(parsed_list, f, k)) :
      Unhashable(MergedLists(parsed_list, f, k)[i])

\* the set built by `try: s.add(int(idx)) except: pass` over the records
IntUnion(parsed_list, f) ==
  {IntOf(x).v : x \in {y \in UNION {Range(parsed_list[i][f]) :
                                      i \in 1..Len(parsed_list)} : IntOf(y).some}}

\* FirstTruthy without the `break`: the last truthy value stands
FirstTruthy_no_break(parsed_list, f) ==
  LET has(p) == Truthy(p[f])
      hits == SelectSeq(parsed_list, has)
  IN IF hits = <<>> THEN JStr("") ELSE hits[Len(hits)][f]

\* the first truthy value of field f, else ''
FirstTruthy(parsed_list, f) ==
  LET has(p) == Truthy(p[f])
      hits == SelectSeq(parsed_list, has)
  IN IF hits = <<>> THEN JStr("") ELSE hits[1][f]

---------------------------------------------------------------------------
(* critique/analyzers.py                                                   *)

Critique_parse_structured(text) ==
  LET parsed == ParsedOrEmpty(text)
  IN [physics_engine_score |-> as_int(parsed, "physics_engine_score"),
      zero_kelvin_shield_score |-> as_int(parsed, "zero_kelvin_shield_score"),
      verdict_output_score |-> as_int(parsed, "verdict_output_score"),
      scalpel_edge_score |-> as_int(parsed, "scalpel_edge_score"),
      kinetic_action_score |-> as_int(parsed, "kinetic_action_score"),
      clinical_tone_score |-> as_int(parsed, "clinical_tone_score"),
      venom_density |-> as_int(parsed, "venom_density"),
      value_density |-> as_int(parsed, "value_density"),
      structural_failures |-> as_list(parsed, "structural_failures"),
      artifact |-> GetStr(parsed, "artifact"),
      forbidden_alternatives |-> as_dict(parsed, "forbidden_alternatives"),
      sentence_triggers |-> as_list(parsed, "sentence_triggers"),
      final_verdict |-> VerdictUpper(parsed, "final_verdict"),
      notes |-> GetStr(parsed, "notes")]

\* parse_structured raises on `.upper()` of a truthy non-string verdict
Critique_parse_raises(text) ==
  VerdictRaises(ParsedOrEmpty(text), "final_verdict")

\* the records of the critics the loop does not skip, in input order
Critique_parsed_list(cs) ==
  LET keep(text) == ~Excluded(text)
  IN Map(Critique_parse_structured, SelectSeq(cs, keep))

\* [p['final_verdict'] for p in parsed_list if p.get('final_verdict')]
Critique_final_verdicts(parsed_list) ==
  LET has(p) == p.final_verdict # ""
      val(p) == p.final_verdict
  IN Map(val, SelectSeq(parsed_list, has))

\* "Venom without substance": v_density < 40 and weapon > 70
StrongWeapon(p) ==
  OrZero(p.value_density) < 40 /\ OrZero(p.verdict_output_score) > 70

\* v_density < 30 and engine < 40
LowValue(p) ==
  OrZero(p.value_density) < 30 /\ OrZero(p.physics_engine_score) < 40

strong_weapon_but_weak_engine(parsed_list) ==
  Cardinality({i \in 1..Len(parsed_list) : StrongWeapon(parsed_list[i])})

low_value_alerts(parsed_list) ==
  Cardinality({i \in 1..Len(parsed_list) : LowValue(parsed_list[i])})

\* the red-flag decision: either counter reached 2
RedFlagEscalation(parsed_list) ==
  \/ strong_weapon_but_weak_engine(parsed_list) >= 2
  \/ low_value_alerts(parsed_list) >= 2

\* Critique_consensus with the REJECT test after the CLEAR majority
Critique_consensus_late_veto(parsed_list) ==
  LET final_verdicts == Critique_final_verdicts(parsed_list)
  IN IF RedFlagEscalation(parsed_list) THEN "REJECT"
     ELSE IF Count(final_verdicts, "CLEAR") >= 2 THEN "CLEAR"
     ELSE IF "REJECT" \in Range(final_verdicts) THEN "REJECT"
     ELSE "REVISE"

\* Critique_consensus with the CLEAR majority before the red-flag counters
Critique_consensus_late_flags(parsed_list) ==
  LET final_verdicts == Critique_final_verdicts(parsed_list)
  IN IF "REJECT" \in Range(final_verdicts) THEN "REJECT"
     ELSE IF Count(final_verdicts, "CLEAR") >= 2 THEN "CLEAR"
     ELSE IF RedFlagEscalation(parsed_list) THEN "REJECT"
     ELSE "REVISE"

\* Critique_consensus with one CLEAR vote enough (`>= 1`)
Critique_consensus_single_clear(parsed_list) ==
  LET final_verdicts == Critique_final_verdicts(parsed_list)
  IN IF "REJECT" \in Range(final_verdicts) THEN "REJECT"
     ELSE IF RedFlagEscalation(parsed_list) THEN "REJECT"
     ELSE IF Count(final_verdicts, "CLEAR") >= 1 THEN "CLEAR"
     ELSE "REVISE"

\* Critique_consensus with the veto looking only at the first verdict
\* (`final_verdicts[:1]`)
Critique_consensus_first_veto(parsed_list) ==
  LET final_verdicts == Critique_final_verdicts(parsed_list)
  IN IF Len(final_verdicts) > 0 /\ final_verdicts[1] = "REJECT" THEN "REJECT"
     ELSE IF RedFlagEscalation(parsed_list) THEN "REJECT"
     ELSE IF Count(final_verdicts, "CLEAR") >= 2 THEN "CLEAR"
     ELSE "REVISE"

Critique_consensus(parsed_list) ==
  LET final_verdicts == Critique_final_verdicts(parsed_list)
  IN IF "REJECT" \in Range(final_verdicts) THEN "REJECT"
     ELSE IF RedFlagEscalation(parsed_list) THEN "REJECT"
     ELSE IF Count(final_verdicts, "CLEAR") >= 2 THEN "CLEAR"
     ELSE IF Len(final_verdicts) > 0 THEN "REVISE"
     ELSE "REVISE"

Critique_raises(cs) ==
  \/ \E i \in 1..Len(cs) : ~Excluded(cs[i]) /\ Critique_parse_raises(cs[i])
  \/ MergeDictRaises(Critique_parsed_list(cs), "forbidden_alternatives")

Critique_calculate_consensus(cs) ==
  LET parsed_list == Critique_parsed_list(cs)
  IN [avg_clinical_score |->
        Average(Supplied(parsed_list, "clinical_tone_score")),
      consensus_verdict |-> Critique_consensus(parsed_list),
      artifact |-> FirstTruthy(parsed_list, "artifact"),
      forbidden_alternatives |-> MergeDict(parsed_list, "forbidden_alternatives"),
      sentence_triggers |-> SortedSeq(IntUnion(parsed_list, "sentence_triggers"))]

---------------------------------------------------------------------------
(* orwell_hitchens/analyzers.py                                            *)

\* str(v) on the values the model's critics use
StrOf(j) ==
  CASE j.t = "str" -> j.v
    [] j.t = "null" -> "None"
    [] j.t = "int" /\ j.v = 0 -> "0"
    [] j.t = "int" /\ j.v = 5 -> "5"
    [] j.t = "list" /\ j.v = <<>> -> "[]"
    [] j.t = "bool" -> (IF j.v THEN "True" ELSE "False")
    [] OTHER -> "<repr>"

\* str.lower() on the strings the model's critics use
Lower(s) ==
  CASE s = "Synergy" -> "synergy"
    [] s = "LEVERAGE" -> "leverage"
    [] s = "Is" -> "is"
    [] s = "None" -> "none"
    [] s = "True" -> "true"
    [] s = "False" -> "false"
    [] OTHER -> s

\* the place of a lowercased entry in Python's string order (code points)
StrRank(s) ==
  CASE s = "0" -> 1
    [] s = "5" -> 2
    [] s = "<repr>" -> 3
    [] s = "[]" -> 4
    [] s = "false" -> 5
    [] s = "is" -> 6
    [] s = "leverage" -> 7
    [] s = "none" -> 8
    [] s = "paradigm" -> 9
    [] s = "synergy" -> 10
    [] s = "true" -> 11
    [] s = "was" -> 12
    [] OTHER -> 13

RECURSIVE SortedStrSeq(_)
\* sorted(list(S)) for a set of strings
SortedStrSeq(S) ==
  IF S = {} THEN <<>>
  ELSE LET m == CHOOSE x \in S : \A y \in S : StrRank(x) <= StrRank(y)
       IN <<m>> \o SortedStrSeq(S \ {m})

\* parse_structured.as_str: str(v) when v is not None, else ''
as_str(parsed, k) ==
  LET v == GetStr(parsed, k)
  IN IF v.t = "null" THEN "" ELSE StrOf(v)

Writing_parse_structured(text) ==
  LET parsed == ParsedOrEmpty(text)
  IN [orwellian_clarity_score |-> as_int(parsed, "orwellian_clarity_score"),
      hitchensian_fire_score |-> as_int(parsed, "hitchensian_fire_score"),
      vivid_physicality_score |-> as_int(parsed, "vivid_physicality_score"),
      technical_execution_score |-> as_int(parsed, "technical_execution_score"),
      abstract_nouns |-> as_list(parsed, "abstract_nouns"),
      passive_voice_sentences |-> as_list(parsed, "passive_voice_sentences"),
      jargon_violations |-> as_dict(parsed, "jargon_violations"),
      weak_verbs |-> as_list(parsed, "weak_verbs"),
      rhetorical_highlights |-> as_list(parsed, "rhetorical_highlights"),
      verdict |-> VerdictUpper(parsed, "verdict"),
      summary |-> GetStr(parsed, "summary"),
      diagnostic_summary |-> as_str(parsed, "diagnostic_summary"),
      before_after_examples |-> as_list(parsed, "before_after_examples"),
      strengths_to_amplify |-> as_list(parsed, "strengths_to_amplify"),
      recurring_patterns |-> as_list(parsed, "recurring_patterns"),
      concrete_next_steps |-> as_list(parsed, "concrete_next_steps"),
      one_sentence_verdict |-> as_str(parsed, "one_sentence_verdict")]

Writing_parse_raises(text) ==
  VerdictRaises(ParsedOrEmpty(text), "verdict")

Writing_parsed_list(cs) ==
  LET keep(text) == ~Excluded(text)
  IN Map(Writing_parse_structured, SelectSeq(cs, keep))

\* [p['verdict'] for p in parsed_list if p.get('verdict')]
Writing_final_verdicts(parsed_list) ==
  LET has(p) == p.verdict # ""
      val(p) == p.verdict
  IN Map(val, SelectSeq(parsed_list, has))

\* Writing_consensus with the PUBLISH majority off by one (`> 2`)
Writing_consensus_strict_majority(parsed_list) ==
  LET final_verdicts == Writing_final_verdicts(parsed_list)
  IN IF "REWRITE" \in Range(final_verdicts) THEN "REWRITE"
     ELSE IF Count(final_verdicts, "PUBLISH") > 2 THEN "PUBLISH"
     ELSE "REVISE"

\* Writing_consensus falling back on the first collected verdict
\* (`consensus = final_verdicts[0]`), and on '' when there is none
Writing_consensus_echo(parsed_list) ==
  LET final_verdicts == Writing_final_verdicts(parsed_list)
  IN IF "REWRITE" \in Range(final_verdicts) THEN "REWRITE"
     ELSE IF Count(final_verdicts, "PUBLISH") >= 2 THEN "PUBLISH"
     ELSE IF Len(final_verdicts) > 0 THEN final_verdicts[1]
     ELSE ""

Writing_consensus(parsed_list) ==
  LET final_verdicts == Writing_final_verdicts(parsed_list)
  IN IF "REWRITE" \in Range(final_verdicts) THEN "REWRITE"
     ELSE IF Count(final_verdicts, "PUBLISH") >= 2 THEN "PUBLISH"
     ELSE IF Len(final_verdicts) > 0 THEN "REVISE"
     ELSE "REVISE"

\* `if avg_clarity and ...`: a Decimal is truthy when it is not None and
\* not zero
DecimalTruthy(avg) == avg.some /\ avg.v # 0

\* overall_score weighting whatever averages there are (`or` for `and`), a
\* missing or zero average weighing nothing
overall_score_partial(clarity, fire, physicality, technical, tie_up) ==
  IF DecimalTruthy(clarity) \/ DecimalTruthy(fire)
     \/ DecimalTruthy(physicality) \/ DecimalTruthy(technical)
  THEN LET num == 4 * OrZero(clarity) + 3 * OrZero(fire)
                  + 2 * OrZero(physicality) + OrZero(technical)
           q == num \div 10
           r == num % 10
       IN Some(IF r < 5 THEN q
               ELSE IF r > 5 THEN q + 1
               ELSE IF tie_up THEN q + 1 ELSE q)
  ELSE None

\* Decimal(weighted).quantize(Decimal('0.1')) in tenths, from the four
\* averages in tenths.  The weighted sum is formed in binary floating point;
\* when the exact sum lies halfway between two tenths the float lies just
\* above or just below it, and tie_up says which.
overall_score(clarity, fire, physicality, technical, tie_up) ==
  IF DecimalTruthy(clarity) /\ DecimalTruthy(fire)
     /\ DecimalTruthy(physicality) /\ DecimalTruthy(technical)
  THEN LET num == 4 * clarity.v + 3 * fire.v + 2 * physicality.v + technical.v
           q == num \div 10
           r == num % 10
       IN Some(IF r < 5 THEN q
               ELSE IF r > 5 THEN q + 1
               ELSE IF tie_up THEN q + 1 ELSE q)
  ELSE None

\* LowerUnion without `.lower()`: the entries as the critics spelled them
LowerUnion_as_spelled(parsed_list, f) ==
  {StrOf(x) : x \in UNION {Range(parsed_list[i][f]) :
                            i \in 1..Len(parsed_list)}}

\* the set built by `s.add(str(x).lower())` over the records
LowerUnion(parsed_list, f) ==
  {Lower(StrOf(x)) : x \in UNION {Range(parsed_list[i][f]) :
                                   i \in 1..Len(parsed_list)}}

\* all entries of list field f, in critic order (repeated list.extend)
Extended(parsed_list, f) ==
  LET part(p) == p[f]
  IN Concat(Map(part, parsed_list))

\* xs[-n:], the last n entries where the first n are meant
Prefix_from_end(xs, n) ==
  SubSeq(xs, IF Len(xs) < n THEN 1 ELSE Len(xs) - n + 1, Len(xs))

\* xs[:n]
Prefix(xs, n) == SubSeq(xs, 1, IF Len(xs) < n THEN Len(xs) ELSE n)

\* the first non-empty string of field f, else ''
FirstNonEmpty(parsed_list, f) ==
  LET has(p) == p[f] # ""
      hits == SelectSeq(parsed_list, has)
  IN IF hits = <<>> THEN "" ELSE hits[1][f]

Writing_raises(cs) ==
  \/ \E i \in 1..Len(cs) : ~Excluded(cs[i]) /\ Writing_parse_raises(cs[i])
  \/ MergeDictRaises(Writing_parsed_list(cs), "jargon_violations")

Writing_calculate_consensus(cs, tie_up) ==
  LET parsed_list == Writing_parsed_list(cs)
      avg_clarity == Average(Supplied(parsed_list, "orwellian_clarity_score"))
      avg_fire == Average(Supplied(parsed_list, "hitchensian_fire_score"))
      avg_physicality == Average(Supplied(parsed_list, "vivid_physicality_score"))
      avg_technical == Average(Supplied(parsed_list, "technical_execution_score"))
  IN [orwellian_clarity_score |-> avg_clarity,
      hitchensian_fire_score |-> avg_fire,
      vivid_physicality_score |-> avg_physicality,
      technical_execution_score |-> avg_technical,
      overall_score |->
        overall_score(avg_clarity, avg_fire, avg_physicality, avg_technical, tie_up),
      consensus_verdict |-> Writing_consensus(parsed_list),
      abstract_nouns |-> SortedStrSeq(LowerUnion(parsed_list, "abstract_nouns")),
      passive_voice_sentences |->
        SortedSeq(IntUnion(parsed_list, "passive_voice_sentences")),
      jargon_violations |-> MergeDict(parsed_list, "jargon_violations"),
      weak_verbs |-> SortedStrSeq(LowerUnion(parsed_list, "weak_verbs")),
      rhetorical_highlights |-> Extended(parsed_list, "rhetorical_highlights"),
      diagnostic_summary |-> FirstNonEmpty(parsed_list, "diagnostic_summary"),
      before_after_examples |->
        Prefix(Extended(parsed_list, "before_after_examples"), 5),
      strengths_to_amplify |-> Extended(parsed_list, "strengths_to_amplify"),
      \* list(set(...)): the order of the entries is not determined
      recurring_patterns |->
        {StrOf(x) : x \in Range(Extended(parsed_list, "recurring_patterns"))},
      concrete_next_steps |->
        Prefix(Dedup(Extended(parsed_list, "concrete_next_steps")), 5),
      one_sentence_verdict |-> FirstNonEmpty(parsed_list, "one_sentence_verdict")]

---------------------------------------------------------------------------
(* The critic texts the model draws its inputs from.                       *)

\* the most critics one call is given
MaxCritics == 3

\* the most critics one call is given when only scores vary
MaxScorers == 4

\* the most critics one call is given when the merged findings vary
MaxMerged == 3

SeqsUpTo(S, n) == UNION {[1..k -> S] : k \in 0..n}

\* critique/tests/test_analyzers.py, j1: CLEAR, no red flag
C_Clear ==
  JsonText([physics_engine_score |-> JInt(80),
            zero_kelvin_shield_score |-> JInt(90),
            verdict_output_score |-> JInt(85),
            clinical_tone_score |-> JInt(82),
            venom_density |-> JInt(60),
            value_density |-> JInt(70),
            structural_failures |-> JList(<<>>),
            artifact |-> JStr("2x2 matrix: Effort vs Impact"),
            forbidden_alternatives |->
              JDict([excited |-> JList(<<JStr("pleased"), JStr("notable")>>)]),
            sentence_triggers |-> JList(<<JInt(1)>>),
            final_verdict |-> JStr("CLEAR")])

\* critique/tests/test_analyzers.py, j2: REVISE, strong weapon on low value
C_Revise ==
  JsonText([physics_engine_score |-> JInt(45),
            verdict_output_score |-> JInt(90),
            clinical_tone_score |-> JInt(60),
            venom_density |-> JInt(90),
            value_density |-> JInt(30),
            final_verdict |-> JStr("REVISE"),
            forbidden_alternatives |->
              JDict([honored |-> JList(<<JStr("grateful")>>),
                     excited |-> JStr("pleased")]),
            sentence_triggers |-> JList(<<JInt(2), JStr("3"), JNull>>),
            artifact |-> JStr("Checklist: 3 steps")])

\* "clear" inside prose; trips only the strong-weapon flag; tone scored 0
C_ClearWeapon ==
  WrappedText([physics_engine_score |-> JInt(40),
               verdict_output_score |-> JInt(71),
               value_density |-> JInt(39),
               clinical_tone_score |-> JInt(0),
               final_verdict |-> JStr("clear")])

\* CLEAR; trips only the low-value flag; tone given as a string
C_ClearEngine ==
  JsonText([physics_engine_score |-> JInt(39),
            verdict_output_score |-> JInt(70),
            value_density |-> JInt(29),
            clinical_tone_score |-> JStr("75"),
            final_verdict |-> JStr("CLEAR")])

\* CLEAR and nothing else: every score is missing
C_ClearBare == JsonText([final_verdict |-> JStr("CLEAR")])

\* a verdict outside the vocabulary, scores on the thresholds (no flag),
\* tone out of range
C_Maybe ==
  JsonText([physics_engine_score |-> JInt(0),
            verdict_output_score |-> JInt(70),
            value_density |-> JInt(30),
            clinical_tone_score |-> JInt(150),
            final_verdict |-> JStr("maybe")])

\* REJECT with good scores and a negative tone
C_Reject ==
  JsonText([physics_engine_score |-> JInt(80),
            verdict_output_score |-> JInt(50),
            value_density |-> JInt(70),
            clinical_tone_score |-> JInt(0 - 5),
            final_verdict |-> JStr("REJECT")])

\* a REJECT whose surrounding prose mentions "failed"
C_FailedReject ==
  FailedJsonText([physics_engine_score |-> JInt(10),
                  verdict_output_score |-> JInt(90),
                  value_density |-> JInt(10),
                  clinical_tone_score |-> JInt(100),
                  artifact |-> JStr("Dropped"),
                  forbidden_alternatives |-> JDict([honored |-> JStr("glad")]),
                  sentence_triggers |-> JList(<<JInt(9)>>),
                  final_verdict |-> JStr("REJECT")])

\* the verdict is a number
C_NumVerdict ==
  JsonText([value_density |-> JInt(70),
            physics_engine_score |-> JInt(80),
            clinical_tone_score |-> JInt(70),
            final_verdict |-> JInt(5)])

\* an alternatives list with a list inside
C_Unhashable ==
  JsonText([value_density |-> JInt(70),
            physics_engine_score |-> JInt(80),
            clinical_tone_score |-> JInt(70),
            forbidden_alternatives |->
              JDict([excited |-> JList(<<JList(<<JStr("glad")>>)>>)]),
            final_verdict |-> JStr("REVISE")])

CritiqueResponses ==
  {C_Clear, C_Revise, C_ClearWeapon, C_ClearEngine, C_ClearBare, C_Maybe,
   C_Reject, C_FailedReject, C_NumVerdict, C_Unhashable,
   ProseText, FailedText, EmptyText}

\* orwell_hitchens/tests.py, test_calculate_consensus: claude
W_Revise ==
  JsonText([orwellian_clarity_score |-> JInt(70),
            hitchensian_fire_score |-> JInt(75),
            vivid_physicality_score |-> JInt(65),
            technical_execution_score |-> JInt(80),
            abstract_nouns |-> JList(<<JStr("Synergy"), JStr("paradigm")>>),
            passive_voice_sentences |-> JList(<<JInt(2), JStr("3")>>),
            jargon_violations |-> JDict([leverage |-> JList(<<JStr("use")>>)]),
            weak_verbs |-> JList(<<JStr("was")>>),
            rhetorical_highlights |-> JList(<<JStr("anaphora")>>),
            diagnostic_summary |-> JStr("Too abstract"),
            before_after_examples |->
              JList(<<JStr("a"), JStr("b"), JStr("c")>>),
            concrete_next_steps |-> JList(<<JStr("cut"), JStr("cut")>>),
            verdict |-> JStr("REVISE")])

\* orwell_hitchens/tests.py, test_calculate_consensus: gemini
W_Publish ==
  JsonText([orwellian_clarity_score |-> JInt(68),
            hitchensian_fire_score |-> JInt(73),
            vivid_physicality_score |-> JInt(62),
            technical_execution_score |-> JInt(78),
            abstract_nouns |-> JList(<<JStr("synergy"), JInt(5)>>),
            passive_voice_sentences |-> JList(<<JInt(1), JStr("x")>>),
            jargon_violations |-> JDict([leverage |-> JStr("use")]),
            weak_verbs |-> JList(<<JStr("Is")>>),
            rhetorical_highlights |-> JList(<<JStr("anaphora")>>),
            diagnostic_summary |-> JStr("Strong"),
            one_sentence_verdict |-> JStr("Ship it"),
            before_after_examples |->
              JList(<<JStr("d"), JStr("e"), JStr("f")>>),
            recurring_patterns |-> JList(<<JStr("hedging")>>),
            strengths_to_amplify |-> JList(<<JStr("verbs")>>),
            verdict |-> JStr("PUBLISH")])

\* "publish" inside prose; every score is 0
W_PublishZero ==
  WrappedText([orwellian_clarity_score |-> JInt(0),
               hitchensian_fire_score |-> JInt(0),
               vivid_physicality_score |-> JInt(0),
               technical_execution_score |-> JInt(0),
               verdict |-> JStr("publish")])

\* REWRITE with one score out of range and the others missing
W_Rewrite ==
  JsonText([orwellian_clarity_score |-> JInt(150),
            verdict |-> JStr("REWRITE")])

\* a verdict outside the vocabulary; a negative and a non-numeric score
W_Maybe ==
  JsonText([orwellian_clarity_score |-> JInt(0 - 5),
            hitchensian_fire_score |-> JStr("high"),
            vivid_physicality_score |-> JInt(71),
            technical_execution_score |-> JInt(71),
            verdict |-> JStr("MAYBE")])

\* a REWRITE whose surrounding prose mentions "failed"
W_FailedRewrite ==
  FailedJsonText([orwellian_clarity_score |-> JInt(100),
                  hitchensian_fire_score |-> JInt(100),
                  vivid_physicality_score |-> JInt(100),
                  technical_execution_score |-> JInt(100),
                  abstract_nouns |-> JList(<<JStr("LEVERAGE")>>),
                  diagnostic_summary |-> JStr("Dropped"),
                  verdict |-> JStr("REWRITE")])

\* the verdict is a list
W_ListVerdict ==
  JsonText([orwellian_clarity_score |-> JInt(70),
            verdict |-> JList(<<JStr("PUBLISH")>>)])

\* a jargon alternatives list with a mapping inside
W_Unhashable ==
  JsonText([orwellian_clarity_score |-> JInt(70),
            jargon_violations |->
              JDict([leverage |-> JList(<<JDict([alt |-> JStr("use")])>>)]),
            verdict |-> JStr("REVISE")])

WritingResponses ==
  {W_Revise, W_Publish, W_PublishZero, W_Rewrite, W_Maybe, W_FailedRewrite,
   W_ListVerdict, W_Unhashable, ProseText, FailedText, EmptyText, BrokenText}

\* a clinical critic that reports only a tone score
C_Tone(n) == JsonText([clinical_tone_score |-> JInt(n)])

\* a writing critic that reports the four scores
W_Scores(c, f, p, t) ==
  JsonText([orwellian_clarity_score |-> JInt(c),
            hitchensian_fire_score |-> JInt(f),
            vivid_physicality_score |-> JInt(p),
            technical_execution_score |-> JInt(t)])

CritiqueScorers == {C_Tone(70), C_Tone(71), C_Tone(0)}

WritingScorers == {W_Scores(70, 75, 65, 80), W_Scores(71, 78, 68, 83),
                   W_Scores(0, 0, 100, 100)}

\* a clinical critic with untidy findings: a fractional tone, a falsy
\* artifact, alternatives that mix strings, 1 and true, a null alternative,
\* and triggers given as a fraction, a boolean and a word
C_Alts ==
  JsonText([clinical_tone_score |-> JFloat(705),
            physics_engine_score |-> JInt(80),
            value_density |-> JInt(70),
            artifact |-> JInt(0),
            forbidden_alternatives |->
              JDict([excited |-> JList(<<JStr("notable"), JInt(1), JBool(TRUE),
                                         JStr("pleased")>>),
                     honored |-> JNull]),
            sentence_triggers |->
              JList(<<JFloat(27), JBool(TRUE), JStr("x"), JInt(2)>>),
            final_verdict |-> JStr("Clear")])

\* a clinical critic whose artifact is a list and whose triggers are a string
C_Grid ==
  WrappedText([artifact |-> JList(<<JStr("grid")>>),
               sentence_triggers |-> JStr("3")])

\* a writing critic with untidy findings and no technical score
W_Coach ==
  JsonText([orwellian_clarity_score |-> JInt(71),
            hitchensian_fire_score |-> JFloat(705),
            vivid_physicality_score |-> JStr("75"),
            abstract_nouns |-> JList(<<JNull, JBool(TRUE), JStr("paradigm")>>),
            passive_voice_sentences |->
              JList(<<JFloat(27), JBool(TRUE), JInt(2), JList(<<>>)>>),
            jargon_violations |->
              JDict([leverage |-> JList(<<JStr("apply"), JStr("use"), JInt(1),
                                          JBool(TRUE)>>),
                     synergy |-> JNull]),
            weak_verbs |-> JList(<<JStr("was"), JInt(0)>>),
            rhetorical_highlights |-> JList(<<JStr("irony"), JStr("anaphora")>>),
            diagnostic_summary |-> JNull,
            one_sentence_verdict |-> JInt(0),
            before_after_examples |-> JList(<<JStr("g")>>),
            concrete_next_steps |-> JList(<<JStr("cut"), JStr("trim")>>),
            verdict |-> JStr("Publish")])

CritiqueMergers ==
  {C_Clear, C_Revise, C_Alts, C_Grid, C_ClearWeapon, C_Reject, C_FailedReject,
   ProseText}

WritingMergers ==
  {W_Revise, W_Publish, W_Coach, W_Maybe, W_Rewrite, W_FailedRewrite,
   ProseText}

Mergers(a) == IF a = "critique" THEN CritiqueMergers ELSE WritingMergers

Scorers(a) == IF a = "critique" THEN CritiqueScorers ELSE WritingScorers

Responses(a) == IF a = "critique" THEN CritiqueResponses ELSE WritingResponses

---------------------------------------------------------------------------
(* One call of calculate_consensus on a mapping of critic texts, given in  *)
(* the mapping's iteration order.                                          *)

Analyzers == {"critique", "orwell_hitchens"}

\* a call of calculate_consensus by itself: no text function, no engine, no
\* task and no stored record take part
NoTask == [retries |-> 0, executions |-> 0, countdown |-> 0]
NoRecord == [exists |-> FALSE, saved |-> None, historical |-> FALSE]
Standalone ==
  /\ call = [fn |-> "calculate_consensus", key |-> ""]
  /\ critique_text = <<>>
  /\ names = <<>>
  /\ raised = {}
  /\ task = NoTask
  /\ record = NoRecord

Init ==
  /\ analyzer \in Analyzers
  /\ critiques \in SeqsUpTo(Responses(analyzer), MaxCritics)
  /\ pc = "called"
  /\ result = None
  /\ Standalone

\* calls whose critics report scores only, up to MaxScorers of them
InitScores ==
  /\ analyzer \in Analyzers
  /\ critiques \in SeqsUpTo(Scorers(analyzer), MaxScorers)
  /\ pc = "called"
  /\ result = None
  /\ Standalone

\* calls whose critics report findings to merge, up to MaxMerged of them
InitMerge ==
  /\ analyzer \in Analyzers
  /\ critiques \in SeqsUpTo(Mergers(analyzer), MaxMerged)
  /\ pc = "called"
  /\ result = None
  /\ Standalone

\* CritiqueAnalyzer.calculate_consensus
CritiqueCalculateConsensus ==
  /\ analyzer = "critique"
  /\ pc = "called"
  /\ IF Critique_raises(critiques)
     THEN pc' = "raised" /\ result' = None
     ELSE pc' = "returned" /\ result' = Critique_calculate_consensus(critiques)
  /\ UNCHANGED <<analyzer, critiques, context>>

\* WritingAnalyzer.calculate_consensus
WritingCalculateConsensus ==
  /\ analyzer = "orwell_hitchens"
  /\ pc = "called"
  /\ IF Writing_raises(critiques)
     THEN pc' = "raised" /\ result' = None
     ELSE /\ pc' = "returned"
          /\ \E tie_up \in BOOLEAN :
               result' = Writing_calculate_consensus(critiques, tie_up)
  /\ UNCHANGED <<analyzer, critiques, context>>

Next == CritiqueCalculateConsensus \/ WritingCalculateConsensus

Spec == Init /\ [][Next]_vars

SpecScores == InitScores /\ [][Next]_vars

SpecMerge == InitMerge /\ [][Next]_vars

---------------------------------------------------------------------------
(* Texts spelled out.  The text functions (_parse_json_block,              *)
(* extract_verdict, extract_clinical_score / extract_score) read the       *)
(* characters of a text, so here a text is a sequence of tokens, each with *)
(* its spelling: a brace, the members between the braces of a JSON object  *)
(* (with the mapping json.loads makes of them), a run of prose, or a       *)
(* labelled number such as "tone score: 70".  The text is the spellings    *)
(* joined by single spaces.                                                *)

LowerCase == "abcdefghijklmnopqrstuvwxyz"
UpperCase == "ABCDEFGHIJKLMNOPQRSTUVWXYZ"

\* the character c with the letters of alphabet from replaced by those of to
MapChar(c, from, to) ==
  IF \E i \in 1..Len(from) : SubSeq(from, i, i) = c
  THEN LET i == CHOOSE i \in 1..Len(from) : SubSeq(from, i, i) = c
       IN SubSeq(to, i, i)
  ELSE c

RECURSIVE MapStr(_, _, _)
MapStr(str, from, to) ==
  IF str = "" THEN ""
  ELSE MapChar(SubSeq(str, 1, 1), from, to)
         \o MapStr(SubSeq(str, 2, Len(str)), from, to)

\* str.upper() and str.lower(), character by character
StrUpper(str) == MapStr(str, LowerCase, UpperCase)
StrLower(str) == MapStr(str, UpperCase, LowerCase)

\* `needle in hay`: the substring test, case-sensitive
Occurs(needle, hay) ==
  \E i \in 1..(Len(hay) - Len(needle) + 1) :
    SubSeq(hay, i, i + Len(needle) - 1) = needle

\* str.endswith
EndsWith(str, suffix) ==
  /\ Len(suffix) <= Len(str)
  /\ SubSeq(str, Len(str) - Len(suffix) + 1, Len(str)) = suffix

\* a token: its kind k, its spelling s with the upper- and lowercase forms of
\* it, the value j that json.loads makes of a members token, and the label l
\* and number n of a labelled number
Token(k, s, j, l, n) ==
  [k |-> k, s |-> s, upper |-> StrUpper(s), lower |-> StrLower(s),
   j |-> j, l |-> l, n |-> n]

LBrace == Token("{", "{", JNull, "", 0)
RBrace == Token("}", "}", JNull, "", 0)
LBracket == Token("[", "[", JNull, "", 0)
RBracket == Token("]", "]", JNull, "", 0)
\* the members of a JSON object, spelled s, that json.loads turns into d
Members(s, d) == Token("members", s, JDict(d), "", 0)
\* prose without a brace and without a labelled number
Prose(s) == Token("prose", s, JNull, "", 0)
\* a label, a colon and a number, e.g. "tone score: 70"
Labelled(s, l, n) == Token("label", s, JNull, l, n)

RECURSIVE Joined(_, _)
\* the text, in the form named by field: the spellings joined by spaces
Joined(ts, field) ==
  IF ts = <<>> THEN ""
  ELSE IF Len(ts) = 1 THEN ts[1][field]
  ELSE ts[1][field] \o " " \o Joined(Tail(ts), field)

RECURSIVE Loads(_)
\* json.loads of a token sequence: the value, or JFail where it raises
Loads(ts) ==
  IF ts = <<LBrace, RBrace>> THEN JDict(EmptyDict)
  ELSE IF Len(ts) = 3 /\ ts[1] = LBrace /\ ts[2].k = "members" /\ ts[3] = RBrace
  THEN ts[2].j
  ELSE IF ts = <<LBracket, RBracket>> THEN JList(<<>>)
  ELSE IF Len(ts) > 2 /\ ts[1] = LBracket /\ ts[Len(ts)] = RBracket
  THEN LET item == Loads(SubSeq(ts, 2, Len(ts) - 1))
       IN IF item.t = "fail" THEN JFail ELSE JList(<<item>>)
  ELSE JFail

\* text.index('{') and text.rindex('}'); 0 where they raise ValueError
IndexOf(ts, tok) ==
  IF \E i \in 1..Len(ts) : ts[i] = tok
  THEN CHOOSE i \in 1..Len(ts) : ts[i] = tok /\ \A j \in 1..(i - 1) : ts[j] # tok
  ELSE 0

RIndexOf(ts, tok) ==
  IF \E i \in 1..Len(ts) : ts[i] = tok
  THEN CHOOSE i \in 1..Len(ts) :
         ts[i] = tok /\ \A j \in (i + 1)..Len(ts) : ts[j] # tok
  ELSE 0

\* what the analyzers observe of the text spelled by ts
TextOf(ts) ==
  Text(ts = <<>>,
       Occurs("failed", Joined(ts, "lower")),
       IndexOf(ts, LBrace) # 0,
       Loads(ts),
       IF IndexOf(ts, LBrace) # 0 /\ RIndexOf(ts, RBrace) # 0
       THEN Loads(SubSeq(ts, IndexOf(ts, LBrace), RIndexOf(ts, RBrace)))
       ELSE JFail)

\* _parse_json_block of the text spelled by ts
ParseTokens(ts) == parse_json_block(TextOf(ts))

\* `parsed and k in parsed`
Has(parsed, k) == parsed.some /\ DOMAIN parsed.v # {} /\ k \in DOMAIN parsed.v

\* sum(1 for term in indicators if term in text_upper)
IndicatorCount(indicators, text_upper) ==
  Cardinality({i \in 1..Len(indicators) : Occurs(indicators[i], text_upper)})

\* the tail of both extract_verdict functions: the keyword counts decide
CountVerdict(worse, better, worst, best) ==
  IF worse > better /\ worse > 2 THEN worst
  ELSE IF better > worse /\ better > 2 THEN best
  ELSE "REVISE"

Critique_labels == {"CLEAR", "REVISE", "REJECT"}
reject_indicators == <<"reject", "fail", "unacceptable", "do not publish">>
clear_indicators == <<"clear", "publish", "approved", "ready">>

\* CritiqueAnalyzer.extract_verdict raises: `.upper()` of a JSON verdict that
\* is not a string
Critique_extract_verdict_raises(ts) ==
  LET parsed == ParseTokens(ts)
  IN Has(parsed, "final_verdict") /\ parsed.v.final_verdict.t # "str"

\* CritiqueAnalyzer.extract_verdict, where it does not raise.  The label branch
\* returns only when one of the three keywords occurs; otherwise control
\* falls through to the counts.
Critique_extract_verdict(ts) ==
  LET parsed == ParseTokens(ts)
      text_upper == Joined(ts, "upper")
  IN IF Has(parsed, "final_verdict")
        /\ StrUpper(parsed.v.final_verdict.v) \in Critique_labels
     THEN StrUpper(parsed.v.final_verdict.v)
     ELSE IF (Occurs("VERDICT:", text_upper)
                \/ Occurs("FINAL VERDICT:", text_upper))
             /\ \E w \in Critique_labels : Occurs(w, text_upper)
     THEN IF Occurs("CLEAR", text_upper) THEN "CLEAR"
          ELSE IF Occurs("REJECT", text_upper) THEN "REJECT"
          ELSE "REVISE"
     ELSE CountVerdict(IndicatorCount(reject_indicators, text_upper),
                       IndicatorCount(clear_indicators, text_upper),
                       "REJECT", "CLEAR")

Writing_labels == {"PUBLISH", "REVISE", "REWRITE"}
publish_indicators == <<"publish", "ready", "strong", "clear", "excellent">>
rewrite_indicators == <<"rewrite", "fail", "weak", "unclear", "confusing">>

\* WritingAnalyzer.extract_verdict raises: `.upper()` of a JSON verdict that
\* is not a string
Writing_extract_verdict_raises(ts) ==
  LET parsed == ParseTokens(ts)
  IN Has(parsed, "verdict") /\ parsed.v.verdict.t # "str"

\* WritingAnalyzer.extract_verdict, where it does not raise; the label branch
\* as in the critique analyzer
Writing_extract_verdict(ts) ==
  LET parsed == ParseTokens(ts)
      text_upper == Joined(ts, "upper")
  IN IF Has(parsed, "verdict")
        /\ StrUpper(parsed.v.verdict.v) \in Writing_labels
     THEN StrUpper(parsed.v.verdict.v)
     ELSE IF Occurs("VERDICT:", text_upper)
             /\ \E w \in Writing_labels : Occurs(w, text_upper)
     THEN IF Occurs("PUBLISH", text_upper) THEN "PUBLISH"
          ELSE IF Occurs("REWRITE", text_upper) THEN "REWRITE"
          ELSE "REVISE"
     ELSE CountVerdict(IndicatorCount(rewrite_indicators, text_upper),
                       IndicatorCount(publish_indicators, text_upper),
                       "REWRITE", "PUBLISH")

---------------------------------------------------------------------------
(* The texts handed to the text functions: up to MaxParts parts, each a    *)
(* JSON object, a lone brace or bracket, or a run of prose.                *)

MaxParts == 3

\* a JSON object spelled `{ s }` that json.loads turns into d
Object(s, d) == <<LBrace, Members(s, d), RBrace>>

CritiqueVerdictParts ==
  { Object("\"final_verdict\": \"clear\"", [final_verdict |-> JStr("clear")]),
    Object("\"final_verdict\": \"maybe\"", [final_verdict |-> JStr("maybe")]),
    Object("\"final_verdict\": null", [final_verdict |-> JNull]),
    <<LBrace>>, <<RBrace>>, <<LBracket>>, <<RBracket>>,
    <<Prose("VERDICT:")>>,
    <<Prose("REJECT")>>,
    <<Prose("is unclear")>>,
    <<Prose("revise")>>,
    <<Prose("reject. it will fail. unacceptable.")>> }

WritingVerdictParts ==
  { Object("\"verdict\": \"Publish\"", [verdict |-> JStr("Publish")]),
    Object("\"verdict\": \"maybe\"", [verdict |-> JStr("maybe")]),
    Object("\"verdict\": 5", [verdict |-> JInt(5)]),
    <<LBrace>>, <<RBrace>>, <<LBracket>>, <<RBracket>>,
    <<Prose("Verdict:")>>,
    <<Prose("REWRITE")>>,
    <<Prose("far from ready to publish")>>,
    <<Prose("revise")>>,
    <<Prose("strong, clear, excellent.")>> }

VerdictParts(a) ==
  IF a = "critique" THEN CritiqueVerdictParts ELSE WritingVerdictParts

\* the texts made of up to MaxParts of the parts
TextsOf(parts) == {Concat(ps) : ps \in SeqsUpTo(parts, MaxParts)}

VerdictCalls ==
  { [fn |-> "_parse_json_block", key |-> ""],
    [fn |-> "extract_verdict", key |-> ""] }

\* a direct call of _parse_json_block or of extract_verdict
InitText ==
  /\ analyzer \in Analyzers
  /\ critiques = <<>>
  /\ pc = "called"
  /\ result = None
  /\ call \in VerdictCalls
  /\ critique_text \in TextsOf(VerdictParts(analyzer))
  /\ names = <<>>
  /\ raised = {}
  /\ task = NoTask
  /\ record = NoRecord

\* CritiqueAnalyzer._parse_json_block and WritingAnalyzer._parse_json_block,
\* which are the same code
ParseJsonBlock ==
  /\ call.fn = "_parse_json_block"
  /\ pc = "called"
  /\ pc' = "returned"
  /\ result' = ParseTokens(critique_text)
  /\ UNCHANGED <<analyzer, critiques, context>>

\* CritiqueAnalyzer.extract_verdict
CritiqueExtractVerdict ==
  /\ analyzer = "critique"
  /\ call.fn = "extract_verdict"
  /\ pc = "called"
  /\ IF Critique_extract_verdict_raises(critique_text)
     THEN pc' = "raised" /\ result' = None
     ELSE pc' = "returned" /\ result' = Critique_extract_verdict(critique_text)
  /\ UNCHANGED <<analyzer, critiques, context>>

\* WritingAnalyzer.extract_verdict
WritingExtractVerdict ==
  /\ analyzer = "orwell_hitchens"
  /\ call.fn = "extract_verdict"
  /\ pc = "called"
  /\ IF Writing_extract_verdict_raises(critique_text)
     THEN pc' = "raised" /\ result' = None
     ELSE pc' = "returned" /\ result' = Writing_extract_verdict(critique_text)
  /\ UNCHANGED <<analyzer, critiques, context>>

NextText == ParseJsonBlock \/ CritiqueExtractVerdict \/ WritingExtractVerdict

SpecText == InitText /\ [][NextText]_vars

---------------------------------------------------------------------------
(* extract_clinical_score / extract_score.  A pattern of the regex         *)
(* fallback is written here as its label words; the regex is those words   *)
(* separated by \s+ and followed by [:\s]+(\d+), matched ignoring case.     *)

Critique_patterns == <<"clinical tone score", "tone score", "score">>

\* score_key.replace('_', r'\s+') followed by the generic pattern
Writing_patterns(score_key) == <<MapStr(score_key, "_", " "), "score">>

\* the pattern matches at this token: the token is a labelled number whose
\* label ends in the pattern's words and whose number is a run of digits
MatchesAt(pattern, tok) ==
  /\ tok.k = "label"
  /\ tok.n >= 0
  /\ EndsWith(StrLower(tok.l), StrLower(pattern))

\* re.search(pattern, critique_text, re.IGNORECASE): int(match.group(1)) of
\* the leftmost match, or None
Search(pattern, ts) ==
  LET hits == {i \in 1..Len(ts) : MatchesAt(pattern, ts[i])}
  IN IF hits = {} THEN None
     ELSE Some(ts[CHOOSE i \in hits : \A j \in hits : i <= j].n)

InRange(opt) == opt.some /\ 0 <= opt.v /\ opt.v <= 100

RECURSIVE FirstInRange(_, _)
\* the loop over the patterns: the first match that is in range is returned
FirstInRange(patterns, ts) ==
  IF patterns = <<>> THEN None
  ELSE IF InRange(Search(Head(patterns), ts)) THEN Search(Head(patterns), ts)
  ELSE FirstInRange(Tail(patterns), ts)

\* the JSON branch: int(parsed[score_key]) where it does not raise and is in
\* range, else None
JsonScore(ts, score_key) ==
  LET parsed == ParseTokens(ts)
  IN IF Has(parsed, score_key) /\ InRange(IntOf(parsed.v[score_key]))
     THEN IntOf(parsed.v[score_key])
     ELSE None

\* CritiqueAnalyzer.extract_clinical_score
extract_clinical_score(ts) ==
  IF JsonScore(ts, "clinical_tone_score").some
  THEN JsonScore(ts, "clinical_tone_score")
  ELSE FirstInRange(Critique_patterns, ts)

\* WritingAnalyzer.extract_score
extract_score(ts, score_key) ==
  IF JsonScore(ts, score_key).some THEN JsonScore(ts, score_key)
  ELSE FirstInRange(Writing_patterns(score_key), ts)

CritiqueScoreParts ==
  { Object("\"clinical_tone_score\": 70.5", [clinical_tone_score |-> JFloat(705)]),
    Object("\"clinical_tone_score\": 150", [clinical_tone_score |-> JInt(150)]),
    Object("\"clinical_tone_score\": \"n/a\"",
           [clinical_tone_score |-> JStr("n/a")]),
    <<Labelled("clinical tone score: 150", "clinical tone score", 150)>>,
    <<Labelled("Tone Score 70", "Tone Score", 70)>>,
    <<Labelled("score: 65/100", "score", 65)>>,
    <<Labelled("score: -5", "score", 0 - 5)>>,
    <<Prose("overall fine.")>> }

WritingScoreParts ==
  { Object("\"orwellian_clarity_score\": 80", [orwellian_clarity_score |-> JInt(80)]),
    Object("\"orwellian_clarity_score\": 150",
           [orwellian_clarity_score |-> JInt(150)]),
    Object("\"hitchensian_fire_score\": true",
           [hitchensian_fire_score |-> JBool(TRUE)]),
    <<Labelled("Orwellian Clarity Score: 77", "Orwellian Clarity Score", 77)>>,
    <<Labelled("hitchensian fire score: 150", "hitchensian fire score", 150)>>,
    <<Labelled("score: 20", "score", 20)>>,
    <<Labelled("underscore 9", "underscore", 9)>>,
    <<Prose("overall fine.")>> }

ScoreParts(a) == IF a = "critique" THEN CritiqueScoreParts ELSE WritingScoreParts

ScoreCalls(a) ==
  IF a = "critique" THEN {[fn |-> "extract_clinical_score", key |-> ""]}
  ELSE {[fn |-> "extract_score", key |-> k] :
          k \in {"orwellian_clarity_score", "hitchensian_fire_score"}}

\* a direct call of extract_clinical_score or of extract_score
InitExtract ==
  /\ analyzer \in Analyzers
  /\ critiques = <<>>
  /\ pc = "called"
  /\ result = None
  /\ call \in ScoreCalls(analyzer)
  /\ critique_text \in TextsOf(ScoreParts(analyzer))
  /\ names = <<>>
  /\ raised = {}
  /\ task = NoTask
  /\ record = NoRecord

\* CritiqueAnalyzer.extract_clinical_score
CritiqueExtractClinicalScore ==
  /\ analyzer = "critique"
  /\ call.fn = "extract_clinical_score"
  /\ pc = "called"
  /\ pc' = "returned"
  /\ result' = extract_clinical_score(critique_text)
  /\ UNCHANGED <<analyzer, critiques, context>>

\* WritingAnalyzer.extract_score
WritingExtractScore ==
  /\ analyzer = "orwell_hitchens"
  /\ call.fn = "extract_score"
  /\ pc = "called"
  /\ pc' = "returned"
  /\ result' = extract_score(critique_text, call.key)
  /\ UNCHANGED <<analyzer, critiques, context>>

NextExtract == CritiqueExtractClinicalScore \/ WritingExtractScore

SpecExtract == InitExtract /\ [][NextExtract]_vars

---------------------------------------------------------------------------
(* The evaluation task: run_full_critique_task / run_full_evaluation_task  *)
(* fetch the record, run the engine's three critics, call                   *)
(* calculate_consensus on what they returned, and save the record; an       *)
(* exception anywhere in the run goes to self.retry.                        *)

\* @shared_task(bind=True, max_retries=2)
max_retries == 2
\* self.retry(exc=exc, countdown=30)
countdown == 30

TaskOf(a) ==
  IF a = "critique" THEN "run_full_critique_task" ELSE "run_full_evaluation_task"

TaskNames == {TaskOf(a) : a \in Analyzers}

\* what str(e) of a failed API call may be
ErrorMessages == {"timeout", ""}

\* the except branch of evaluate_with_<critic>:
\* f"<Critic> evaluation failed: {str(e)}"
Sentinel(critic, msg) ==
  TextOf(<<Prose(critic \o " evaluation failed: " \o msg)>>)

\* the engine's mapping with a failed critic's entry left out
WithFailure_omitted(cs, critic, msg) == cs

\* the engine's mapping after a critic whose API call raised
WithFailure(cs, critic, msg) == Append(cs, Sentinel(critic, msg))

\* what a critic's API may answer when its call does not raise
CritiqueAnswers == {C_Clear, C_Reject, C_FailedReject, C_NumVerdict, EmptyText}
WritingAnswers == {W_Publish, W_Rewrite, W_FailedRewrite, W_ListVerdict, EmptyText}
Answers(a) == IF a = "critique" THEN CritiqueAnswers ELSE WritingAnswers

\* Celery's Task.retry: a retry is scheduled while request.retries has not
\* reached max_retries; with one more retry allowed
MayRetry_once_more(t) == t.retries <= max_retries

\* Celery's Task.retry: a retry is scheduled while request.retries has not
\* reached max_retries, otherwise the exception is raised for good
MayRetry(t) == t.retries < max_retries

\* the task has been enqueued for an existing record
InitTask ==
  /\ analyzer \in Analyzers
  /\ critiques = <<>>
  /\ pc = "queued"
  /\ result = None
  /\ call = [fn |-> TaskOf(analyzer), key |-> ""]
  /\ critique_text = <<>>
  /\ names = <<>>
  /\ raised = {}
  /\ task = NoTask
  /\ record = [exists |-> TRUE, saved |-> None, historical |-> FALSE]

\* a run begins: the record is fetched and the engine is built.  The record
\* may have been deleted since the task was enqueued (DoesNotExist), and the
\* other lookups may raise; run_full_evaluation_task returns on DoesNotExist.
StartRun ==
  /\ call.fn \in TaskNames
  /\ pc = "queued"
  /\ task' = [task EXCEPT !.executions = @ + 1]
  /\ \E found \in (IF record.exists THEN BOOLEAN ELSE {FALSE}), ok \in BOOLEAN :
       /\ record' = [record EXCEPT !.exists = found]
       /\ pc' = IF ~found
                THEN IF analyzer = "orwell_hitchens" THEN "dropped" ELSE "raised"
                ELSE IF ok THEN "engine" ELSE "raised"
  /\ UNCHANGED <<analyzer, critiques, result, call, critique_text, names, raised>>

\* one critic of the engine: the API's answer, or the sentinel when the call
\* raised
Evaluate(critic, key, position, next) ==
  /\ call.fn \in TaskNames
  /\ pc = "engine"
  /\ Len(names) = position
  /\ names' = Append(names, key)
  /\ \/ \E answer \in Answers(analyzer) :
          /\ critiques' = Append(critiques, answer)
          /\ raised' = raised
     \/ \E msg \in ErrorMessages :
          /\ critiques' = WithFailure(critiques, critic, msg)
          /\ raised' = raised \cup {key}
  /\ pc' = next
  /\ UNCHANGED <<analyzer, result, call, critique_text, task, record>>

\* evaluate_with_claude
EvaluateWithClaude == Evaluate("Claude", "claude", 0, "engine")

\* evaluate_with_gpt
EvaluateWithGpt == Evaluate("GPT", "gpt", 1, "engine")

\* evaluate_with_gemini, after which execute_full_critique /
\* execute_full_evaluation returns the mapping and calculate_consensus is
\* called on it
EvaluateWithGemini == Evaluate("Gemini", "gemini", 2, "called")

\* the consensus is copied to the record's fields, the historical average is
\* computed where that works (its failures are swallowed), and
\* record.save() writes the record or raises
SaveRecord ==
  /\ call.fn \in TaskNames
  /\ pc = "returned"
  /\ \/ \E hist \in BOOLEAN :
          /\ record' = [record EXCEPT !.saved = Some(result),
                                      !.historical = hist]
          /\ pc' = "saved"
     \/ /\ record' = record
        /\ pc' = "raised"
  /\ UNCHANGED <<analyzer, critiques, result, call, critique_text, names,
                 raised, task>>

\* except Exception as exc: self.retry(exc=exc, countdown=30)
RetryTask ==
  /\ call.fn \in TaskNames
  /\ pc = "raised"
  /\ IF MayRetry(task)
     THEN /\ task' = [task EXCEPT !.retries = @ + 1, !.countdown = countdown]
          /\ pc' = "queued"
     ELSE /\ task' = task
          /\ pc' = "failed"
  /\ critiques' = <<>>
  /\ names' = <<>>
  /\ raised' = {}
  /\ result' = None
  /\ UNCHANGED <<analyzer, call, critique_text, record>>

NextTask ==
  \/ StartRun
  \/ EvaluateWithClaude
  \/ EvaluateWithGpt
  \/ EvaluateWithGemini
  \/ CritiqueCalculateConsensus
  \/ WritingCalculateConsensus
  \/ SaveRecord
  \/ RetryTask

SpecTask == InitTask /\ [][NextTask]_vars

---------------------------------------------------------------------------
(* Properties.  They speak of the critics by the claims' own words: a      *)
(* critic counts when its text is neither empty nor contains "failed", and *)
(* its verdict and scores are those of its normalized record.              *)

Returned == pc = "returned"

Kept ==
  LET counts(text) == ~(text.empty \/ text.failed)
  IN SelectSeq(critiques, counts)

Normalized(text) ==
  IF analyzer = "critique" THEN Critique_parse_structured(text)
  ELSE Writing_parse_structured(text)

Verdicts ==
  LET verdict_of(text) ==
        IF analyzer = "critique" THEN Critique_parse_structured(text).final_verdict
        ELSE Writing_parse_structured(text).verdict
  IN Map(verdict_of, Kept)

Worst == IF analyzer = "critique" THEN "REJECT" ELSE "REWRITE"
Best == IF analyzer = "critique" THEN "CLEAR" ELSE "PUBLISH"

ScoreFields ==
  IF analyzer = "critique" THEN {"clinical_tone_score"}
  ELSE {"orwellian_clarity_score", "hitchensian_fire_score",
        "vivid_physicality_score", "technical_execution_score"}

\* the result's average of score field f
AverageOf(f) ==
  IF analyzer = "critique" THEN result.avg_clinical_score ELSE result[f]

\* the values the counted critics supplied for score field f
ValuesOf(f) ==
  LET has(text) == Normalized(text)[f].some
      val(text) == Normalized(text)[f].v
  IN Map(val, SelectSeq(Kept, has))

\* critics that report value_density < 40 with verdict_output_score > 70
ReportedWeapon ==
  {i \in 1..Len(Kept) :
     LET p == Normalized(Kept[i])
     IN /\ p.value_density.some /\ p.value_density.v < 40
        /\ p.verdict_output_score.some /\ p.verdict_output_score.v > 70}

\* critics that report value_density < 30 with physics_engine_score < 40
ReportedEngine ==
  {i \in 1..Len(Kept) :
     LET p == Normalized(Kept[i])
     IN /\ p.value_density.some /\ p.value_density.v < 30
        /\ p.physics_engine_score.some /\ p.physics_engine_score.v < 40}

\* the two red-flag counters as the code counts them: a missing score is 0
WeaponCounter ==
  Cardinality({i \in 1..Len(Kept) :
     LET p == Normalized(Kept[i])
     IN OrZero(p.value_density) < 40 /\ OrZero(p.verdict_output_score) > 70})

EngineCounter ==
  Cardinality({i \in 1..Len(Kept) :
     LET p == Normalized(Kept[i])
     IN OrZero(p.value_density) < 30 /\ OrZero(p.physics_engine_score) < 40})

\* the mean total / n in tenths, ties rounded half away from zero
RoundHalfAway(total, n) ==
  LET num == 10 * total
      q == num \div n
      r == num % n
  IN IF 2 * r < n THEN q
     ELSE IF 2 * r > n THEN q + 1
     ELSE IF num >= 0 THEN q + 1 ELSE q

\* C1 (as claimed): calculate_consensus returns a result record for every
\* mapping of critic texts and never raises.
C1_Total == pc # "raised"

\* C2: if any counted critic's normalized verdict is the worst severity
\* (REJECT, resp. REWRITE), the consensus verdict of the returned result is
\* that worst severity, whatever the other critics say.
C2_Veto ==
  Returned /\ Worst \in Range(Verdicts) => result.consensus_verdict = Worst

\* C2 witness: one worst verdict beside two best ones, resolved to worst.
C2_Witness ==
  /\ Returned
  /\ Len(Kept) = 3
  /\ Count(Verdicts, Worst) = 1
  /\ Count(Verdicts, Best) = 2
  /\ result.consensus_verdict = Worst

\* C3 (as claimed): in each instance, at least two best-severity verdicts
\* and no worst-severity verdict give the best severity.
C3_Majority_AsClaimed ==
  Returned /\ Count(Verdicts, Best) >= 2 /\ Worst \notin Range(Verdicts)
    => result.consensus_verdict = Best

\* C3 (amended): at least two best-severity verdicts and no worst-severity
\* verdict give the best severity in the Orwell-Hitchens instance, and in
\* the clinical instance when, besides, neither red-flag counter reaches 2.
C3_Majority ==
  /\ Returned
  /\ Count(Verdicts, Best) >= 2
  /\ Worst \notin Range(Verdicts)
  /\ (analyzer = "critique" => WeaponCounter < 2 /\ EngineCounter < 2)
  => result.consensus_verdict = Best

\* C3 witness: a clinical call with two CLEAR votes, a REVISE vote and one
\* red flag only, resolved to CLEAR.
C3_Witness ==
  /\ Returned
  /\ analyzer = "critique"
  /\ Len(Kept) = 3
  /\ Count(Verdicts, "CLEAR") = 2
  /\ Count(Verdicts, "REVISE") = 1
  /\ WeaponCounter = 1
  /\ result.consensus_verdict = "CLEAR"

\* C4: in the clinical instance, with no REJECT verdict, two or more critics
\* reporting value_density < 40 with verdict_output_score > 70, or two or
\* more reporting value_density < 30 with physics_engine_score < 40, give
\* REJECT, also when two or more critics say CLEAR.
C4_RedFlagEscalation ==
  /\ Returned
  /\ analyzer = "critique"
  /\ "REJECT" \notin Range(Verdicts)
  /\ (Cardinality(ReportedWeapon) >= 2 \/ Cardinality(ReportedEngine) >= 2)
  => result.consensus_verdict = "REJECT"

\* C4 witness: two CLEAR critics that both trip the same red flag, no
\* REJECT verdict, resolved to REJECT.
C4_Witness ==
  /\ Returned
  /\ analyzer = "critique"
  /\ "REJECT" \notin Range(Verdicts)
  /\ Count(Verdicts, "CLEAR") >= 2
  /\ Cardinality(ReportedEngine) >= 2
  /\ result.consensus_verdict = "REJECT"

\* C5 (as claimed): in the clinical instance, two or more critics that each
\* trip at least one of the two red-flag conditions give REJECT, also when
\* one trips only the first and another only the second.
C5_EitherFlag ==
  /\ Returned
  /\ analyzer = "critique"
  /\ Cardinality(ReportedWeapon \cup ReportedEngine) >= 2
  => result.consensus_verdict = "REJECT"

\* C6: the consensus is the best severity only if at least two counted
\* critics gave it, none gave the worst severity and, in the clinical
\* instance, neither red-flag counter reached 2.
C6_BestNeedsMajority ==
  Returned /\ result.consensus_verdict = Best
    => /\ Count(Verdicts, Best) >= 2
       /\ Worst \notin Range(Verdicts)
       /\ (analyzer = "critique" => WeaponCounter < 2 /\ EngineCounter < 2)

\* C6 witness: one best vote beside a REVISE vote and a prose response,
\* resolved to REVISE.
C6_Witness ==
  /\ Returned
  /\ Len(Kept) = 3
  /\ Count(Verdicts, Best) = 1
  /\ Count(Verdicts, "REVISE") = 1
  /\ ProseText \in Range(Kept)
  /\ result.consensus_verdict = "REVISE"

\* C7: the outcome of calculate_consensus on a mapping is, in every field,
\* its outcome on the mapping without the critics whose text is empty or
\* contains "failed".
C7_Exclusion ==
  /\ Returned /\ analyzer = "critique"
       => result = Critique_calculate_consensus(Kept)
  /\ Returned /\ analyzer = "orwell_hitchens"
       => \E tie_up \in BOOLEAN :
            result = Writing_calculate_consensus(Kept, tie_up)
  /\ pc = "raised" /\ analyzer = "critique" => Critique_raises(Kept)
  /\ pc = "raised" /\ analyzer = "orwell_hitchens" => Writing_raises(Kept)

\* C7 witness: a third critic whose text contains "failed" and carries a
\* worst-severity JSON verdict, and a consensus of the other two that is
\* not the worst severity.
C7_Witness ==
  /\ Returned
  /\ Len(critiques) = 3
  /\ Len(Kept) = 2
  /\ critiques[3].failed /\ critiques[3].brace
  /\ result.consensus_verdict # Worst

\* C8: a field's average is absent exactly when no counted critic supplied
\* a value for it, and it is 0.0 when every supplied value is 0.
C8_AveragePresence ==
  Returned =>
    \A f \in ScoreFields :
      /\ AverageOf(f).some <=> Len(ValuesOf(f)) > 0
      /\ Len(ValuesOf(f)) > 0 /\ Range(ValuesOf(f)) = {0}
           => AverageOf(f) = Some(0)

\* C8 witness: two critics both scored a field 0 and its average is 0.0,
\* while another field of the same result has no value and no average.
C8_Witness ==
  /\ Returned
  /\ \E f \in ScoreFields :
       /\ Len(ValuesOf(f)) = 2
       /\ Range(ValuesOf(f)) = {0}
       /\ AverageOf(f) = Some(0)
  /\ \E text \in Range(Kept) : \A f \in ScoreFields : ~Normalized(text)[f].some

\* C9 (as claimed): each field average is the mean of the supplied values
\* rounded to one decimal place, ties half away from zero.
C9_HalfAwayFromZero ==
  Returned =>
    \A f \in ScoreFields :
      Len(ValuesOf(f)) > 0
        => AverageOf(f) = Some(RoundHalfAway(SumSeq(ValuesOf(f)), Len(ValuesOf(f))))

\* C10 (as claimed): a score outside [0,100] is normalized to absent and
\* every present field average lies in [0,100].
C10_RangeRejection ==
  Returned =>
    \A f \in ScoreFields :
      /\ \A i \in 1..Len(ValuesOf(f)) : ValuesOf(f)[i] \in 0..100
      /\ AverageOf(f).some => AverageOf(f).v \in 0..1000

\* C11: in the Orwell-Hitchens instance, when any one of the four field
\* averages is absent (no counted critic supplied that score), overall_score
\* is absent: the remaining averages are never weighted on their own.
C11_MissingBlocksOverall ==
  (Returned /\ analyzer = "orwell_hitchens") =>
    \A f \in ScoreFields :
      (ValuesOf(f) = <<>> \/ ~AverageOf(f).some) => ~result.overall_score.some

\* fire is absent, the three other averages are present and not zero, and
\* there is no overall score
C11_Witness ==
  /\ Returned /\ analyzer = "orwell_hitchens"
  /\ ValuesOf("hitchensian_fire_score") = <<>>
  /\ ~result.hitchensian_fire_score.some
  /\ \A f \in ScoreFields \ {"hitchensian_fire_score"} :
       AverageOf(f).some /\ AverageOf(f).v # 0
  /\ ~result.overall_score.some

\* a critic whose whole text is one JSON object that gives each of the
\* rubric's scores as an integer from 0 to 100
WellFormed(text) ==
  /\ text.whole.t = "dict"
  /\ \A f \in ScoreFields :
       /\ f \in DOMAIN text.whole.v
       /\ text.whole.v[f].t = "int"
       /\ text.whole.v[f].v \in 0..100

\* the tenths nearest to num / 10; both neighbours when num / 10 lies
\* halfway between them
NearestTenths(num) ==
  LET q == num \div 10
      r == num % 10
  IN IF r < 5 THEN {q} ELSE IF r > 5 THEN {q + 1} ELSE {q, q + 1}

\* C12 (as claimed): when overall_score is present it is
\* 0.40*clarity + 0.30*fire + 0.20*physicality + 0.10*technical of the four
\* one-decimal field averages, rounded to one decimal place; and when every
\* counted critic is well-formed (and there is one) it is present.
C12_OverallValue ==
  (Returned /\ analyzer = "orwell_hitchens") =>
    /\ result.overall_score.some =>
         /\ \A f \in ScoreFields : AverageOf(f).some
         /\ result.overall_score.v \in
              NearestTenths(4 * result.orwellian_clarity_score.v
                            + 3 * result.hitchensian_fire_score.v
                            + 2 * result.vivid_physicality_score.v
                            + result.technical_execution_score.v)
    /\ (Kept # <<>> /\ \A i \in 1..Len(Kept) : WellFormed(Kept[i])) =>
         result.overall_score.some

\* the reorderings of a mapping of n entries
Permutations(n) ==
  {pi \in [1..n -> 1..n] : \A i, j \in 1..n : pi[i] = pi[j] => i = j}

Reordered(cs, pi) == [i \in 1..Len(cs) |-> cs[pi[i]]]

SetMergedFields ==
  IF analyzer = "critique" THEN {"sentence_triggers"}
  ELSE {"abstract_nouns", "weak_verbs", "passive_voice_sentences"}

\* C13: for every input and every reordering of its entries,
\* calculate_consensus returns the same value for every averaged score field,
\* for the overall score (a function of the four averages) and for every
\* set-merged field.
C13_PermutationInvariance ==
  Returned =>
    \A pi \in Permutations(Len(critiques)) :
      LET cs == Reordered(critiques, pi)
      IN IF analyzer = "critique"
         THEN /\ ~Critique_raises(cs)
              /\ LET r == Critique_calculate_consensus(cs)
                 IN /\ r.avg_clinical_score = result.avg_clinical_score
                    /\ \A f \in SetMergedFields : r[f] = result[f]
         ELSE /\ ~Writing_raises(cs)
              /\ \E tie_up \in BOOLEAN :
                   LET r == Writing_calculate_consensus(cs, tie_up)
                   IN /\ \A f \in ScoreFields : r[f] = result[f]
                      /\ r.overall_score = result.overall_score
                      /\ \A f \in SetMergedFields : r[f] = result[f]

\* three different critics, one of them without a technical score, whose six
\* orders give the same overall score and the same merged nouns
C13_Witness ==
  /\ Returned /\ analyzer = "orwell_hitchens"
  /\ Len(critiques) = 3 /\ Len(Kept) = 3
  /\ Cardinality(Range(critiques)) = 3
  /\ \E i \in 1..3 : ~Normalized(critiques[i]).technical_execution_score.some
  /\ result.overall_score.some
  /\ Len(result.abstract_nouns) >= 3
  /\ Len(result.passive_voice_sentences) >= 3

\* the consensus verdict the analyzer computes for the critic texts cs
ConsensusOf(cs) ==
  IF analyzer = "critique" THEN Critique_consensus(Critique_parsed_list(cs))
  ELSE Writing_consensus(Writing_parsed_list(cs))

\* a critic text that carries nothing but the verdict and the red-flag scores
\* of the normalized record of text
Signature(text) ==
  LET p == Normalized(text)
      flags == IF analyzer = "critique"
               THEN {"value_density", "verdict_output_score",
                     "physics_engine_score"}
               ELSE {}
      verdict == IF analyzer = "critique" THEN "final_verdict" ELSE "verdict"
  IN JsonText([k \in {verdict} \cup {f \in flags : p[f].some} |->
                 IF k = verdict THEN JStr(p[verdict]) ELSE JInt(p[k].v)])

\* C14: reordering the critics never changes consensus_verdict, and the
\* verdict is decided by the multiset of the counted critics' verdicts and
\* red-flag scores alone: critics that carry only those, in any order, get
\* the same consensus.
C14_VerdictOfMultiset ==
  Returned =>
    /\ \A pi \in Permutations(Len(critiques)) :
         ConsensusOf(Reordered(critiques, pi)) = result.consensus_verdict
    /\ \A pi \in Permutations(Len(Kept)) :
         ConsensusOf(Reordered(Map(Signature, Kept), pi)) =
           result.consensus_verdict

\* three different counted critics, two CLEAR votes behind a REJECT vote
C14_Witness ==
  /\ Returned /\ analyzer = "critique"
  /\ Len(Kept) = 3 /\ Cardinality(Range(Kept)) = 3
  /\ Verdicts[1] = "CLEAR" /\ Verdicts[2] = "CLEAR" /\ Verdicts[3] = "REJECT"
  /\ result.consensus_verdict = "REJECT"

\* the rubric's three terminal labels
Vocabulary ==
  IF analyzer = "critique" THEN {"CLEAR", "REVISE", "REJECT"}
  ELSE {"PUBLISH", "REVISE", "REWRITE"}

\* C15: the consensus_verdict that calculate_consensus returns is one of the
\* rubric's three terminal labels; it is never empty and never PROCESSING.
C15_VerdictVocabulary ==
  Returned =>
    /\ result.consensus_verdict \in Vocabulary
    /\ result.consensus_verdict \notin {"", "PROCESSING"}

\* the only verdict collected is outside the vocabulary, and the consensus
\* is REVISE
C15_Witness ==
  /\ Returned
  /\ Verdicts # <<>>
  /\ \A i \in 1..Len(Verdicts) : Verdicts[i] = "MAYBE"
  /\ result.consensus_verdict = "REVISE"

\* the singleton fields, and the counted critics whose normalized record has
\* a non-empty value for one of them
SingletonFields ==
  IF analyzer = "critique" THEN {"artifact"}
  ELSE {"diagnostic_summary", "one_sentence_verdict"}

Suppliers(f) ==
  {i \in 1..Len(Kept) :
     IF analyzer = "critique" THEN Truthy(Normalized(Kept[i])[f])
     ELSE Normalized(Kept[i])[f] # ""}

NoValue == IF analyzer = "critique" THEN JStr("") ELSE ""

\* C16: artifact (clinical), diagnostic_summary and one_sentence_verdict
\* (Orwell-Hitchens) are each the value of the first counted critic, in the
\* input's order, whose value for the field is non-empty; later values are
\* discarded; the field is the empty string when no critic supplied one.
C16_FirstMatchWins ==
  Returned =>
    \A f \in SingletonFields :
      IF Suppliers(f) = {} THEN result[f] = NoValue
      ELSE \E i \in Suppliers(f) :
             /\ \A j \in Suppliers(f) : i <= j
             /\ result[f] = Normalized(Kept[i])[f]

\* the first counted critic has no artifact, the second and the third have
\* different ones, and the second's is returned
C16_Witness ==
  /\ Returned /\ analyzer = "critique"
  /\ Len(Kept) = 3
  /\ Suppliers("artifact") = {2, 3}
  /\ Normalized(Kept[2]).artifact # Normalized(Kept[3]).artifact
  /\ result.artifact = Normalized(Kept[2]).artifact

\* the mapping-of-lists field
MappingField ==
  IF analyzer = "critique" THEN "forbidden_alternatives" ELSE "jargon_violations"

\* the alternatives the counted critics give for key k, in critic order, a
\* value that is not a list counting as a list of one
Alternatives(k) ==
  LET given(text) ==
        LET d == Normalized(text)[MappingField]
        IN IF k \notin DOMAIN d THEN <<>>
           ELSE IF d[k].t = "list" THEN d[k].v
           ELSE <<d[k]>>
  IN Concat(Map(given, Kept))

\* xs without the entries that equal an earlier entry
FirstSeen(xs) ==
  LET firsts == {j \in 1..Len(xs) : \A i \in 1..(j - 1) : ~PyEq(xs[i], xs[j])}
      nth(n) == CHOOSE j \in firsts : Cardinality({i \in firsts : i < j}) = n - 1
  IN [n \in 1..Cardinality(firsts) |-> xs[nth(n)]]

\* C17: the keys of the merged mapping are the union of the keys of the
\* counted critics' mappings, and each key's list is the concatenation of the
\* critics' alternatives in critic order (a value that is not a list counting
\* as a list of one), duplicates removed, first-seen order kept.
C17_MappingMerge ==
  Returned =>
    /\ DOMAIN result[MappingField] =
         UNION {DOMAIN Normalized(Kept[i])[MappingField] : i \in 1..Len(Kept)}
    /\ \A k \in DOMAIN result[MappingField] :
         result[MappingField][k] = FirstSeen(Alternatives(k))

\* two keys; one of them has a value that is not a list from one critic and
\* a list from another, a repeat is dropped, and three alternatives remain
C17_Witness ==
  /\ Returned /\ analyzer = "critique"
  /\ Cardinality(DOMAIN result.forbidden_alternatives) >= 2
  /\ \E k \in DOMAIN result.forbidden_alternatives :
       /\ \E i \in 1..Len(Kept) :
            LET d == Normalized(Kept[i]).forbidden_alternatives
            IN k \in DOMAIN d /\ d[k].t = "str"
       /\ \E i \in 1..Len(Kept) :
            LET d == Normalized(Kept[i]).forbidden_alternatives
            IN k \in DOMAIN d /\ d[k].t = "list"
       /\ Len(result.forbidden_alternatives[k]) >= 3
       /\ Len(result.forbidden_alternatives[k]) < Len(Alternatives(k))

\* the entries the counted critics list under field f
Entries(f) == UNION {Range(Normalized(Kept[i])[f]) : i \in 1..Len(Kept)}

WordFields ==
  IF analyzer = "critique" THEN {} ELSE {"abstract_nouns", "weak_verbs"}

IndexFields ==
  IF analyzer = "critique" THEN {"sentence_triggers"}
  ELSE {"passive_voice_sentences"}

\* C18: each set-merged list holds exactly the union over the counted
\* critics of their normalized entries (abstract_nouns, weak_verbs: the entry
\* lowercased; passive_voice_sentences, sentence_triggers: the entry as an
\* integer, entries that are no integer dropped), without duplicates, in
\* ascending order.
C18_SetMerged ==
  Returned =>
    /\ \A f \in WordFields :
         /\ Range(result[f]) = {Lower(StrOf(x)) : x \in Entries(f)}
         /\ \A i, j \in 1..Len(result[f]) :
              i < j => StrRank(result[f][i]) < StrRank(result[f][j])
    /\ \A f \in IndexFields :
         /\ Range(result[f]) =
              {IntOf(x).v : x \in {y \in Entries(f) : IntOf(y).some}}
         /\ \A i, j \in 1..Len(result[f]) : i < j => result[f][i] < result[f][j]

\* two critics spell one noun with different capitals, one critic lists a
\* sentence that is no integer, and both merged lists have three entries
C18_Witness ==
  /\ Returned /\ analyzer = "orwell_hitchens"
  /\ JStr("Synergy") \in Entries("abstract_nouns")
  /\ JStr("synergy") \in Entries("abstract_nouns")
  /\ Len(result.abstract_nouns) = 3
  /\ \E y \in Entries("passive_voice_sentences") : ~IntOf(y).some
  /\ Len(result.passive_voice_sentences) = 3

\* the counted critics' lists under field f, one after the other in critic
\* order
Concatenation(f) ==
  LET listed(text) == Normalized(text)[f]
  IN Concat(Map(listed, Kept))

\* C19: rhetorical_highlights is the concatenation, in critic order and with
\* repeats kept, of the counted critics' lists; before_after_examples is the
\* first 5 entries of the concatenation of theirs: never longer than 5 and a
\* prefix of the full concatenation.
C19_FreeFormMerge ==
  (Returned /\ analyzer = "orwell_hitchens") =>
    /\ result.rhetorical_highlights = Concatenation("rhetorical_highlights")
    /\ LET full == Concatenation("before_after_examples")
           kept == result.before_after_examples
       IN /\ Len(kept) <= 5
          /\ Len(kept) = (IF Len(full) < 5 THEN Len(full) ELSE 5)
          /\ \A i \in 1..Len(kept) : kept[i] = full[i]

\* the critics give more than five examples between them, of which five are
\* returned, and one highlight is returned twice
C19_Witness ==
  /\ Returned /\ analyzer = "orwell_hitchens"
  /\ Len(Concatenation("before_after_examples")) > 5
  /\ Len(result.before_after_examples) = 5
  /\ Len(result.rhetorical_highlights) >
       Cardinality(Range(result.rhetorical_highlights))

\* the verdicts calculate_consensus collects from the normalized records
Collected ==
  IF analyzer = "critique"
  THEN Critique_final_verdicts(Critique_parsed_list(critiques))
  ELSE Writing_final_verdicts(Writing_parsed_list(critiques))

\* C20 (as claimed): the verdict of every normalized record is one of the
\* rubric's three labels, or the empty string when the critic's verdict is
\* missing or outside the vocabulary, so that no verdict outside the
\* vocabulary is among the collected verdicts.
C20_VerdictNormalization ==
  Returned =>
    /\ \A i \in 1..Len(Verdicts) : Verdicts[i] \in Vocabulary \cup {""}
    /\ Range(Collected) \subseteq Vocabulary

\* the result of a call in which no critic counts
NothingToReport ==
  IF analyzer = "critique"
  THEN [avg_clinical_score |-> None,
        consensus_verdict |-> "REVISE",
        artifact |-> JStr(""),
        forbidden_alternatives |-> EmptyDict,
        sentence_triggers |-> <<>>]
  ELSE [orwellian_clarity_score |-> None,
        hitchensian_fire_score |-> None,
        vivid_physicality_score |-> None,
        technical_execution_score |-> None,
        overall_score |-> None,
        consensus_verdict |-> "REVISE",
        abstract_nouns |-> <<>>,
        passive_voice_sentences |-> <<>>,
        jargon_violations |-> EmptyDict,
        weak_verbs |-> <<>>,
        rhetorical_highlights |-> <<>>,
        diagnostic_summary |-> "",
        before_after_examples |-> <<>>,
        strengths_to_amplify |-> <<>>,
        recurring_patterns |-> {},
        concrete_next_steps |-> <<>>,
        one_sentence_verdict |-> ""]

\* C28: when every critic's text is empty or contains "failed", or there is
\* no critic, calculate_consensus returns (it does not raise) REVISE, every
\* average and the overall score absent, and every merged finding empty.
C28_AllExcluded ==
  (pc # "called" /\ Kept = <<>>) => (Returned /\ result = NothingToReport)

\* three critics, none counted, one of them a full REJECT critique inside a
\* text that mentions "failed"
C28_Witness ==
  /\ Returned /\ Len(critiques) = 3 /\ Kept = <<>>
  /\ \E i \in 1..3 : critiques[i].failed /\ critiques[i].inner.t = "dict"
  /\ \E i \in 1..3 : critiques[i].empty
  /\ result.consensus_verdict = "REVISE"

\* C29 (as claimed): in the Orwell-Hitchens instance, whenever all four
\* field averages are present, overall_score is present, also when one of
\* the averages is exactly 0.0.
C29_ZeroIsNotAbsent ==
  (Returned /\ analyzer = "orwell_hitchens") =>
    ((\A f \in ScoreFields : ValuesOf(f) # <<>> /\ AverageOf(f).some) =>
       result.overall_score.some)

\* a counted critic of the clinical instance that reported value_density
ReportsValue(i) == Normalized(Kept[i]).value_density.some

\* C30 (as claimed): in the clinical instance a counted critic without a
\* value_density trips neither red-flag condition; so when no counted critic
\* says REJECT and fewer than two critics that reported value_density trip
\* each condition, the consensus follows the majority and fallback rules:
\* CLEAR with two CLEAR votes, REVISE otherwise.
C30_FlagsFromReportedScores ==
  (/\ Returned /\ analyzer = "critique"
   /\ "REJECT" \notin Range(Verdicts)
   /\ Cardinality({i \in 1..Len(Kept) : ReportsValue(i) /\
        OrZero(Normalized(Kept[i]).value_density) < 40 /\
        OrZero(Normalized(Kept[i]).verdict_output_score) > 70}) < 2
   /\ Cardinality({i \in 1..Len(Kept) : ReportsValue(i) /\
        OrZero(Normalized(Kept[i]).value_density) < 30 /\
        OrZero(Normalized(Kept[i]).physics_engine_score) < 40}) < 2)
  => result.consensus_verdict =
       (IF Count(Verdicts, "CLEAR") >= 2 THEN "CLEAR" ELSE "REVISE")


\* the part of a text running from its first '{' to its last '}'
Embedded(ts) ==
  LET opens == {i \in 1..Len(ts) : ts[i] = LBrace}
      closes == {i \in 1..Len(ts) : ts[i] = RBrace}
  IN IF opens = {} \/ closes = {} THEN <<>>
     ELSE SubSeq(ts, CHOOSE i \in opens : \A j \in opens : i <= j,
                     CHOOSE i \in closes : \A j \in closes : i >= j)

\* the optional result is the mapping d
IsMapping(opt, d) == opt.some /\ opt.v = d

\* C21: _parse_json_block never raises; it returns the whole text parsed when
\* the whole text is a JSON object, otherwise the mapping parsed from the
\* part running from the first '{' to the last '}', and nothing when the text
\* is empty, has no '{', or that part does not parse to a mapping.
C21_ParseJsonBlock ==
  call.fn = "_parse_json_block" =>
    /\ pc # "raised"
    /\ Returned =>
         LET whole == Loads(critique_text)
             inner == Loads(Embedded(critique_text))
         IN /\ whole.t = "dict" => IsMapping(result, whole.v)
            /\ (whole.t # "dict" /\ inner.t = "dict") =>
                 IsMapping(result, inner.v)
            /\ (critique_text = <<>>
                  \/ LBrace \notin Range(critique_text)
                  \/ (whole.t # "dict" /\ inner.t # "dict")) => ~result.some

\* a JSON object surrounded by prose is recovered
C21_Witness ==
  /\ call.fn = "_parse_json_block"
  /\ Returned
  /\ Len(critique_text) = 5
  /\ critique_text[1].k = "prose"
  /\ critique_text[5].k = "prose"
  /\ IsMapping(result, critique_text[3].j.v)
  /\ "final_verdict" \in DOMAIN result.v \/ "verdict" \in DOMAIN result.v


\* the rubric's three labels and the key of its verdict
Labels(a) == IF a = "critique" THEN Critique_labels ELSE Writing_labels
VerdictKey(a) == IF a = "critique" THEN "final_verdict" ELSE "verdict"

\* the verdict the text's JSON object carries, where it carries one
JsonVerdict(ts, a) ==
  LET parsed == ParseTokens(ts)
  IN IF Has(parsed, VerdictKey(a)) THEN parsed.v[VerdictKey(a)] ELSE JNull

\* the text's JSON object carries a string that, uppercased, is a label
UsableVerdict(ts, a) ==
  /\ JsonVerdict(ts, a).t = "str"
  /\ StrUpper(JsonVerdict(ts, a).v) \in Labels(a)

\* a call of extract_verdict that has ended
VerdictDone == call.fn = "extract_verdict" /\ pc # "called"

\* C22 (as claimed): a JSON verdict that, uppercased, is one of the three
\* labels is returned whatever the prose around it says, and extract_verdict
\* returns one of the three labels for every text.
C22_JsonVerdictPreferred ==
  VerdictDone =>
    /\ Returned
    /\ result \in Labels(analyzer)
    /\ UsableVerdict(critique_text, analyzer) =>
         result = StrUpper(JsonVerdict(critique_text, analyzer).v)

\* the indicator words found in the text, in either case
NegativeCount(ts, a) ==
  IndicatorCount(IF a = "critique" THEN reject_indicators
                 ELSE rewrite_indicators, Joined(ts, "lower"))
PositiveCount(ts, a) ==
  IndicatorCount(IF a = "critique" THEN clear_indicators
                 ELSE publish_indicators, Joined(ts, "lower"))

\* C23 (as claimed): without a usable JSON verdict and without a "VERDICT:"
\* label, extract_verdict returns the worst severity when the negative
\* indicator words found outnumber the positive ones and 2, the best severity
\* in the symmetric case, and REVISE otherwise.
C23_KeywordFrequency ==
  (/\ VerdictDone /\ Returned
   /\ ~UsableVerdict(critique_text, analyzer)
   /\ ~Occurs("VERDICT:", Joined(critique_text, "upper"))) =>
    LET neg == NegativeCount(critique_text, analyzer)
        pos == PositiveCount(critique_text, analyzer)
    IN result = IF neg > pos /\ neg > 2 THEN Worst
                ELSE IF pos > neg /\ pos > 2 THEN Best
                ELSE "REVISE"

\* C24 (as claimed): without a usable JSON verdict, a text with a "VERDICT:"
\* label and the worst-severity keyword gets the worst severity, whatever
\* more lenient keyword occurs elsewhere in it.
C24_LabelSeverityPriority ==
  (/\ VerdictDone /\ Returned
   /\ ~UsableVerdict(critique_text, analyzer)
   /\ Occurs("VERDICT:", Joined(critique_text, "upper"))
   /\ Occurs(Worst, Joined(critique_text, "upper"))) =>
    result = Worst


\* the patterns tried in order with the first that matches deciding, in range
\* or not
FirstMatch(patterns, ts) ==
  LET hits == {i \in 1..Len(patterns) : Search(patterns[i], ts).some}
  IN IF hits = {} THEN None
     ELSE LET m == Search(patterns[CHOOSE i \in hits : \A j \in hits : i <= j],
                          ts)
          IN IF InRange(m) THEN m ELSE None

\* the patterns tried by the call
PatternsOf(c) ==
  IF c.fn = "extract_clinical_score" THEN Critique_patterns
  ELSE Writing_patterns(c.key)

ScoreKeyOf(c) ==
  IF c.fn = "extract_clinical_score" THEN "clinical_tone_score" ELSE c.key

\* C25 (as claimed): extract_clinical_score / extract_score return the JSON
\* value when the embedded JSON supplies one in range; otherwise the first of
\* the patterns, in their order, that matches decides: its number when within
\* [0,100], absent otherwise.  The result is absent or within [0,100].
C25_ScoreFallback ==
  (call.fn \in {"extract_clinical_score", "extract_score"} /\ pc # "called") =>
    /\ Returned
    /\ result.some => (0 <= result.v /\ result.v <= 100)
    /\ result = IF JsonScore(critique_text, ScoreKeyOf(call)).some
                THEN JsonScore(critique_text, ScoreKeyOf(call))
                ELSE FirstMatch(PatternsOf(call), critique_text)


\* the engine has returned its mapping in this run of the task
EngineReturned ==
  call.fn \in TaskNames /\ pc \in {"called", "returned", "saved"}

\* the answers of the critics at the positions in S, in the mapping's order
AtPositions(cs, S) ==
  LET order == SortedSeq(S)
  IN [k \in 1..Len(order) |-> cs[order[k]]]

\* the critics whose API call did not raise and whose answer the exclusion
\* rule lets through
Others ==
  AtPositions(critiques,
              {i \in 1..Len(critiques) :
                 names[i] \notin raised /\ ~Excluded(critiques[i])})

\* what calculate_consensus returns for the critics cs
ConsensusResults(cs) ==
  IF analyzer = "critique" THEN {Critique_calculate_consensus(cs)}
  ELSE {Writing_calculate_consensus(cs, tie_up) : tie_up \in BOOLEAN}

\* the engine's part of C26: the mapping has the keys claude, gpt, gemini in
\* that order, a run never raises inside the engine, and a critic whose API
\* call raised is there as a text that contains "failed"
SentinelsInPlace ==
  /\ (call.fn \in TaskNames /\ pc = "raised" /\ names # <<>>) =>
       Len(names) = 3
  /\ EngineReturned =>
       /\ names = <<"claude", "gpt", "gemini">>
       /\ Len(critiques) = 3
       /\ \A i \in 1..3 :
            names[i] \in raised =>
              /\ ~critiques[i].empty
              /\ critiques[i].failed
              /\ Excluded(critiques[i])

\* C26 (amended): the engine returns the keys claude, gpt, gemini in order and
\* never raises; a critic whose API call raised is a text containing "failed",
\* never omitted, so calculate_consensus excludes it, and its result is that
\* of the other critics whose own answer is neither empty nor contains
\* "failed".
C26_SentinelText ==
  /\ SentinelsInPlace
  /\ (EngineReturned /\ pc # "called") => result \in ConsensusResults(Others)

\* one critic's call raised and the other two are aggregated
C26_Witness ==
  /\ EngineReturned
  /\ pc = "returned"
  /\ raised = {"gpt"}
  /\ Len(Others) = 2
  /\ result.consensus_verdict = Best

\* C26 (as claimed): as above, and calculate_consensus excludes exactly the
\* critics whose API call raised.
C26_SentinelText_AsClaimed ==
  /\ SentinelsInPlace
  /\ EngineReturned =>
       \A i \in 1..Len(critiques) :
         Excluded(critiques[i]) <=> names[i] \in raised


\* the optional value b differs from the optional value a
Rewritten(a, b) == a.some # b.some \/ (a.some /\ b.some /\ a.v # b.v)

\* C27: a run of the task that raises is retried after 30 seconds while fewer
\* than 2 retries have been made, so that there are at most 3 executions,
\* and fails for good after that; the record's consensus fields are written
\* only by a run that reaches record.save(); and in the Orwell-Hitchens task
\* a record that no longer exists ends the task without a retry.
C27_BoundedRetry ==
  [][call.fn \in TaskNames =>
       /\ pc = "raised" =>
            \/ /\ task.retries < 2
               /\ pc' = "queued"
               /\ task'.retries = task.retries + 1
               /\ task'.countdown = 30
            \/ /\ task.retries = 2
               /\ pc' = "failed"
               /\ task' = task
       /\ task'.executions <= 3
       /\ task'.executions <= task'.retries + 1
       /\ pc \notin {"failed", "dropped", "saved"}
       /\ Rewritten(record.saved, record'.saved) =>
            /\ pc = "returned"
            /\ pc' = "saved"
            /\ record'.saved = Some(result)
       /\ (analyzer = "orwell_hitchens" /\ pc = "queued" /\ ~record'.exists) =>
            /\ pc' = "dropped"
            /\ task'.retries = task.retries
            /\ ~record'.saved.some]_vars

\* the third execution has raised and the task has failed for good
C27_Witness ==
  /\ call.fn \in TaskNames
  /\ pc = "failed"
  /\ task.executions = 3
  /\ task.retries = 2
  /\ task.countdown = 30

====
